---- MODULE Spec2Model ----
(***************************************************************************)
(* A model of the contact extraction core of python_scraper:               *)
(*   pdf_extract.py  email discovery, the spatial name and phone searches, *)
(*                   the name validator and the phone normalization;       *)
(*   pairing.py      name derivation, domain classification, confidence.   *)
(*                                                                         *)
(* Texts are TLA+ strings, read character by character with SubSeq.        *)
(* Coordinates are integers; a center (a + b) / 2 is never computed:       *)
(* every comparison of the code is stated on the doubled quantities, which *)
(* is exact.  An Optional[str] is None (the empty tuple) or Some(s).       *)
(* The alphabet is ASCII.                                                  *)
(***************************************************************************)
EXTENDS Integers, Sequences, FiniteSets, TLC

VARIABLES
    pc,           \* where the running call stands
    pdf,          \* the file at pdf_path: whether it exists, and its tokens
    all_words,    \* the token list of the document (List[PdfWord])
    emails,       \* find_emails_in_words' result: <<email_text, word index>>
    k,            \* number of entries of emails the extraction loop has consumed
    seen_emails,  \* extract_contacts_from_pdf's seen_emails
    contacts,     \* the PdfContact list (extraction's result, pairing's input)
    result,       \* process_pdf_contacts' contacts list
    call,         \* a direct call of one function: its name and arguments
    ret,          \* what that call returned
    first_run,    \* the Contact list of an earlier run on the same file, if any
    attempt,         \* retry_with_backoff: the loop variable attempt
    last_exception,  \* retry_with_backoff: last_exception
    func_calls,      \* retry_with_backoff: the outcomes of the calls of func so far
    sleeps,          \* retry_with_backoff: the backoff times slept so far
    browser,         \* main: the BrowserManager ("none", "open", "closed")
    pdf_file,        \* main: the rendered PDF on disk ("none", "present", "deleted")
    unlink_attempted,\* main: Path(pdf_path).unlink() has been called
    error,           \* main: the exception that left the try block, if any
    exit_code,       \* main: the value returned, if any
    last_height,     \* scroll_to_bottom: last_height
    scroll_count,    \* scroll_to_bottom: scroll_count
    no_change_count, \* scroll_to_bottom: no_change_count
    observed         \* scroll_to_bottom: every height page.evaluate returned

retry_vars == <<attempt, last_exception, func_calls, sleeps>>

cli_vars == <<browser, pdf_file, unlink_attempted, error, exit_code>>

scroll_vars == <<last_height, scroll_count, no_change_count, observed>>

vars == <<pc, pdf, all_words, emails, k, seen_emails, contacts, result, call, ret,
          first_run, retry_vars, cli_vars, scroll_vars>>

-----------------------------------------------------------------------------
(* Optional values.                                                        *)

None == <<>>

Some(s) == <<s>>

Val(o) == o[1]

\* Python's truth value of an Optional[str]: None and "" are false.
Truthy(o) == o # None /\ Val(o) # ""

\* a direct call reads no file
NoPdf == [exists |-> FALSE, words |-> <<>>]

NoCall == [fn |-> "none"]

\* retry_with_backoff has not been called
RetryIdle ==
    /\ attempt = 0
    /\ last_exception = None
    /\ func_calls = <<>>
    /\ sleeps = <<>>

\* main has not been called
CliIdle ==
    /\ browser = "none"
    /\ pdf_file = "none"
    /\ unlink_attempted = FALSE
    /\ error = None
    /\ exit_code = None

\* scroll_to_bottom has not been called
ScrollIdle ==
    /\ last_height = 0
    /\ scroll_count = 0
    /\ no_change_count = 0
    /\ observed = <<>>

-----------------------------------------------------------------------------
(* Characters and strings.                                                 *)

\* the character at position i (from 1), "" outside the string
Ch(s, i) == IF i >= 1 /\ i <= Len(s) THEN SubSeq(s, i, i) ELSE ""

UpperLetters == "ABCDEFGHIJKLMNOPQRSTUVWXYZ"

LowerLetters == "abcdefghijklmnopqrstuvwxyz"

DigitChars == "0123456789"

CharsOf(s) == {Ch(s, i) : i \in 1..Len(s)}

AsciiUpper == CharsOf(UpperLetters)

AsciiLower == CharsOf(LowerLetters)

Letters == AsciiUpper \cup AsciiLower

Digits == CharsOf(DigitChars)

\* \s of the re module
Whitespace == {" ", "\t", "\n", "\r", "\f"}

ToLowerMap == [c \in AsciiUpper |->
    Ch(LowerLetters, CHOOSE i \in 1..26 : Ch(UpperLetters, i) = c)]

ToUpperMap == [c \in AsciiLower |->
    Ch(UpperLetters, CHOOSE i \in 1..26 : Ch(LowerLetters, i) = c)]

LowerChar(c) == IF c \in AsciiUpper THEN ToLowerMap[c] ELSE c

UpperChar(c) == IF c \in AsciiLower THEN ToUpperMap[c] ELSE c

RECURSIVE LowerStr(_)
\* str.lower()
LowerStr(s) ==
    IF s = "" THEN ""
    ELSE LowerChar(Ch(s, 1)) \o LowerStr(SubSeq(s, 2, Len(s)))

RECURSIVE UpperStr(_)
\* str.upper()
UpperStr(s) ==
    IF s = "" THEN ""
    ELSE UpperChar(Ch(s, 1)) \o UpperStr(SubSeq(s, 2, Len(s)))

\* str.capitalize(): first character upper-cased, the rest lower-cased
Capitalize(s) ==
    IF s = "" THEN ""
    ELSE UpperChar(Ch(s, 1)) \o LowerStr(SubSeq(s, 2, Len(s)))

\* str.isupper() of one character
IsUpperChar(c) == c \in AsciiUpper

\* sub in s
Contains(s, sub) ==
    \E i \in 1..(Len(s) - Len(sub) + 1) : SubSeq(s, i, i + Len(sub) - 1) = sub

RECURSIVE Join(_, _)
\* sep.join(parts)
Join(parts, sep) ==
    IF parts = <<>> THEN ""
    ELSE IF Len(parts) = 1 THEN parts[1]
    ELSE parts[1] \o sep \o Join(Tail(parts), sep)

-----------------------------------------------------------------------------
(* The name validator (pdf_extract.py).                                    *)

BLACKLIST == {
    "contact", "email", "phone", "website", "address", "location", "sign in",
    "log in", "sign up", "log out", "register", "login", "get help",
    "contact us", "about us", "view profile", "view all", "learn more",
    "read more", "see more", "show more", "load more", "find an agent",
    "find a", "search", "filter", "back to", "click here", "more info",
    "details", "menu", "home", "listings", "properties", "agents", "about",
    "services", "resources", "blog", "news", "compass", "compass one",
    "compass luxury", "compass academy", "compass plus", "compass cares",
    "private exclusives", "coming soon", "new development", "recently sold",
    "sales leadership", "neighborhood guides", "mortgage calculator",
    "external suppliers", "agent", "broker", "realtor", "licensed",
    "certified", "team", "group", "partners", "associates", "name",
    "first name", "last name", "full name", "your name", "enter name",
    "user name", "username", "manhattan", "brooklyn", "queens", "bronx",
    "staten island", "new york", "ny", "nyc", "city", "state", "zip" }

ui_words == {"find", "agent", "last name", "first name", "register", "login",
    "view", "profile"}

MinNameLen == 2

MaxNameLen == 50

NamePatternMinMid == 1

NamePatternMaxMid == 48

\* the class [a-zA-Z'\-\.\s] of NAME_PATTERN
NameMidChars == Letters \cup {"'", "-", "."} \cup Whitespace

\* NAME_PATTERN.match(text): ^[A-Z][a-zA-Z'\-\.\s]{1,48}[a-zA-Z]$, where $
\* matches at the end of the text and also before a final newline.
NAME_PATTERN_match(text) ==
    LET n == Len(text)
        ends == {n} \cup (IF n >= 1 /\ Ch(text, n) = "\n" THEN {n - 1} ELSE {})
    IN  \E e \in ends :
            /\ e >= 2 + NamePatternMinMid
            /\ e <= 2 + NamePatternMaxMid
            /\ Ch(text, 1) \in AsciiUpper
            /\ \A j \in 2..(e - 1) : Ch(text, j) \in NameMidChars
            /\ Ch(text, e) \in Letters

\* is_valid_name with neither the blacklist nor the UI-fragment test
is_valid_name_PatternOnly(text) ==
    IF text = "" \/ Len(text) < MinNameLen \/ Len(text) > MaxNameLen THEN FALSE
    ELSE IF ~IsUpperChar(Ch(text, 1)) THEN FALSE
    ELSE NAME_PATTERN_match(text)

\* is_valid_name without the UI-fragment test
is_valid_name_NoFragments(text) ==
    IF text = "" \/ Len(text) < MinNameLen \/ Len(text) > MaxNameLen THEN FALSE
    ELSE IF LowerStr(text) \in BLACKLIST THEN FALSE
    ELSE IF ~IsUpperChar(Ch(text, 1)) THEN FALSE
    ELSE NAME_PATTERN_match(text)

is_valid_name(text) ==
    IF text = "" \/ Len(text) < MinNameLen \/ Len(text) > MaxNameLen THEN FALSE
    ELSE LET text_lower == LowerStr(text)
         IN  IF text_lower \in BLACKLIST THEN FALSE
             ELSE IF \E word \in ui_words : Contains(text_lower, word) THEN FALSE
             ELSE IF ~IsUpperChar(Ch(text, 1)) THEN FALSE
             ELSE IF ~NAME_PATTERN_match(text) THEN FALSE
             ELSE TRUE

-----------------------------------------------------------------------------
(* Phone normalization (pdf_extract.py, the end of find_phone_below_email). *)

RECURSIVE DigitsOf(_)
\* re.sub(r'\D', '', phone)
DigitsOf(s) ==
    IF s = "" THEN ""
    ELSE (IF Ch(s, 1) \in Digits THEN Ch(s, 1) ELSE "")
         \o DigitsOf(SubSeq(s, 2, Len(s)))

NationalDigits == 10

CountryDigits == 11

\* the normalization with the 11-digit case formatted like the 10-digit one
normalize_phone_LeadingDigits(phone) ==
    LET digits == DigitsOf(phone)
    IN  IF Len(digits) = NationalDigits
           \/ (Len(digits) = CountryDigits /\ Ch(digits, 1) = "1")
        THEN "+1-" \o SubSeq(digits, 1, 3) \o "-" \o SubSeq(digits, 4, 6)
                 \o "-" \o SubSeq(digits, 7, Len(digits))
        ELSE phone

normalize_phone(phone) ==
    LET digits == DigitsOf(phone)
    IN  IF Len(digits) = NationalDigits
        THEN "+1-" \o SubSeq(digits, 1, 3) \o "-" \o SubSeq(digits, 4, 6)
                 \o "-" \o SubSeq(digits, 7, Len(digits))
        ELSE IF Len(digits) = CountryDigits /\ Ch(digits, 1) = "1"
        THEN "+" \o Ch(digits, 1) \o "-" \o SubSeq(digits, 2, 4) \o "-"
                 \o SubSeq(digits, 5, 7) \o "-" \o SubSeq(digits, 8, Len(digits))
        ELSE phone

-----------------------------------------------------------------------------
(* Tokens and the two patterns searched in them (models.py, pdf_extract.py). *)

\* PdfWord
PdfWord(text, x0, y0, x1, y1, page_num) ==
    [text |-> text, x0 |-> x0, y0 |-> y0, x1 |-> x1, y1 |-> y1,
     page_num |-> page_num]

\* twice PdfWord.center_x
center_x2(word) == word.x0 + word.x1

\* twice PdfWord.center_y
center_y2(word) == word.y0 + word.y1

Abs(n) == IF n < 0 THEN -n ELSE n

\* [a-zA-Z0-9._%+-] of EMAIL_PATTERN
EmailLocalChars == Letters \cup Digits \cup {".", "_", "%", "+", "-"}

\* [a-zA-Z0-9.-] of EMAIL_PATTERN
EmailDomainChars == Letters \cup Digits \cup {".", "-"}

\* the last index of the longest run of characters of class that starts at
\* i; i - 1 when the character at i is not of the class
RunEnd(s, i, class) ==
    IF Ch(s, i) \notin class THEN i - 1
    ELSE CHOOSE e \in i..Len(s) :
             /\ \A j \in i..e : Ch(s, j) \in class
             /\ Ch(s, e + 1) \notin class

\* EMAIL_PATTERN matched at position i: the index of the last character of
\* the match, 0 when there is no match at i.  The local part and the top
\* level label are the longest runs; the domain is the longest one after
\* which a period and two letters follow (greedy, then backtracking).
EmailMatchEnd(s, i) ==
    LET l == RunEnd(s, i, EmailLocalChars)
        d == RunEnd(s, l + 2, EmailDomainChars)
        dots == {q \in (l + 3)..d :
                    /\ Ch(s, q) = "."
                    /\ Ch(s, q + 1) \in Letters
                    /\ Ch(s, q + 2) \in Letters}
    IN  IF l < i \/ Ch(s, l + 1) # "@" \/ dots = {} THEN 0
        ELSE LET q == CHOOSE q \in dots : \A r \in dots : r <= q
             IN  RunEnd(s, q + 1, Letters)

RECURSIVE EmailFindAllFrom(_, _)
\* the matches of EMAIL_PATTERN from position i on, left to right, each
\* search resuming after the previous match
EmailFindAllFrom(s, i) ==
    IF i > Len(s) THEN <<>>
    ELSE LET e == EmailMatchEnd(s, i)
         IN  IF e = 0 THEN EmailFindAllFrom(s, i + 1)
             ELSE <<SubSeq(s, i, e)>> \o EmailFindAllFrom(s, e + 1)

\* EMAIL_PATTERN.findall(text)
EMAIL_PATTERN_findall(text) == EmailFindAllFrom(text, 1)

\* [-.\s] of PHONE_PATTERN
PhoneSeparators == {"-", "."} \cup Whitespace

\* the pattern with a last group of four or five digits
PhoneMatchEnd_LongTail(s, i) ==
    LET a == IF Ch(s, i) = "(" THEN i + 1 ELSE i
        b == a + 3
        c == IF Ch(s, b) = ")" THEN b + 1 ELSE b
        d == IF Ch(s, c) \in PhoneSeparators THEN c + 1 ELSE c
        f == d + 3
        g == IF Ch(s, f) \in PhoneSeparators THEN f + 1 ELSE f
        h == g + 4
    IN  IF /\ \A j \in a..(b - 1) : Ch(s, j) \in Digits
           /\ \A j \in d..(f - 1) : Ch(s, j) \in Digits
           /\ \A j \in g..(h - 1) : Ch(s, j) \in Digits
        THEN (IF Ch(s, h) \in Digits THEN h ELSE h - 1)
        ELSE 0

\* PHONE_PATTERN matched at position i: the index of the last character of
\* the match, 0 when there is no match at i.  Each optional item is taken
\* when present; leaving it out never helps, a digit must follow.
PhoneMatchEnd(s, i) ==
    LET a == IF Ch(s, i) = "(" THEN i + 1 ELSE i
        b == a + 3
        c == IF Ch(s, b) = ")" THEN b + 1 ELSE b
        d == IF Ch(s, c) \in PhoneSeparators THEN c + 1 ELSE c
        f == d + 3
        g == IF Ch(s, f) \in PhoneSeparators THEN f + 1 ELSE f
        h == g + 4
    IN  IF /\ \A j \in a..(b - 1) : Ch(s, j) \in Digits
           /\ \A j \in d..(f - 1) : Ch(s, j) \in Digits
           /\ \A j \in g..(h - 1) : Ch(s, j) \in Digits
        THEN h - 1
        ELSE 0

RECURSIVE PhoneFindAllFrom(_, _)
PhoneFindAllFrom(s, i) ==
    IF i > Len(s) THEN <<>>
    ELSE LET e == PhoneMatchEnd(s, i)
         IN  IF e = 0 THEN PhoneFindAllFrom(s, i + 1)
             ELSE <<SubSeq(s, i, e)>> \o PhoneFindAllFrom(s, e + 1)

\* PHONE_PATTERN.findall(text)
PHONE_PATTERN_findall(text) == PhoneFindAllFrom(text, 1)

-----------------------------------------------------------------------------
(* The spatial searches (pdf_extract.py).                                  *)

NameSearchDistance == 60

PhoneSearchDistance == 40

XTolerance == 100

SameLineY == 5

SameLineX == 150

\* list.sort(key=...): ascending in the key, equal keys in their old order.
\* before[i][j] says that the key of s[i] is strictly smaller than that of
\* s[j]; s[i] moves to the place after every element with a smaller key and
\* every earlier element with an equal key.
StableSort(s, before) ==
    LET place(i) == 1 + Cardinality({j \in 1..Len(s) :
                        before[j][i] \/ (j < i /\ ~before[i][j])})
    IN  [r \in 1..Len(s) |-> s[CHOOSE i \in 1..Len(s) : place(i) = r]]

\* candidates.sort(key=lambda x: x[1])
SortByDistance(cands) ==
    StableSort(cands, [i \in 1..Len(cands) |-> [j \in 1..Len(cands) |->
        cands[i].distance2 < cands[j].distance2]])

\* the search region above the email, every page
NameCandidateFilter_AnyPage(word, email_word) ==
    /\ 2 * (email_word.y0 - NameSearchDistance) <= center_y2(word)
    /\ center_y2(word) <= 2 * email_word.y0
    /\ center_x2(email_word) - 2 * XTolerance <= center_x2(word)
    /\ center_x2(word) <= center_x2(email_word) + 2 * XTolerance
    /\ word.text # "" /\ IsUpperChar(Ch(word.text, 1))

\* the tests a word passes to become a name candidate
NameCandidateFilter(word, email_word) ==
    /\ word.page_num = email_word.page_num
    /\ 2 * (email_word.y0 - NameSearchDistance) <= center_y2(word)
    /\ center_y2(word) <= 2 * email_word.y0
    /\ center_x2(email_word) - 2 * XTolerance <= center_x2(word)
    /\ center_x2(word) <= center_x2(email_word) + 2 * XTolerance
    /\ word.text # "" /\ IsUpperChar(Ch(word.text, 1))

\* a candidate: the word's index in all_words and twice its distance
NameCandidates(email_word, words) ==
    LET idx == SelectSeq([i \in 1..Len(words) |-> i],
                   LAMBDA i : NameCandidateFilter(words[i], email_word))
    IN  [j \in 1..Len(idx) |->
            [word |-> idx[j],
             distance2 |-> Abs(center_y2(words[idx[j]]) - 2 * email_word.y0)]]

RECURSIVE GroupWalk_FirstOfGroup(_, _, _, _, _)
\* the walk in which a candidate is compared with the first member of the
\* current group instead of the candidate before it
GroupWalk_FirstOfGroup(words, cands, i, groups, current_group) ==
    IF i > Len(cands)
    THEN IF current_group # <<>> THEN Append(groups, current_group) ELSE groups
    ELSE LET word == words[cands[i].word]
             last == IF i = 1 THEN <<>>
                     ELSE <<words[current_group[1].word].y0,
                            words[current_group[1].word].x1>>
         IN  IF /\ last # <<>>
                /\ Abs(word.y0 - last[1]) < SameLineY
                /\ Abs(word.x0 - last[2]) < SameLineX
             THEN GroupWalk_FirstOfGroup(words, cands, i + 1, groups,
                            Append(current_group, cands[i]))
             ELSE GroupWalk_FirstOfGroup(words, cands, i + 1,
                            IF current_group # <<>>
                            THEN Append(groups, current_group) ELSE groups,
                            <<cands[i]>>)

RECURSIVE GroupWalk(_, _, _, _, _)
\* the walk over the sorted candidates from position i: groups closed so
\* far, the current group, and last = <<last_y, last_x>> (<<>> at the start)
GroupWalk(words, cands, i, groups, current_group) ==
    IF i > Len(cands)
    THEN IF current_group # <<>> THEN Append(groups, current_group) ELSE groups
    ELSE LET word == words[cands[i].word]
             last == IF i = 1 THEN <<>>
                     ELSE <<words[cands[i - 1].word].y0, words[cands[i - 1].word].x1>>
         IN  IF /\ last # <<>>
                /\ Abs(word.y0 - last[1]) < SameLineY
                /\ Abs(word.x0 - last[2]) < SameLineX
             THEN GroupWalk(words, cands, i + 1, groups,
                            Append(current_group, cands[i]))
             ELSE GroupWalk(words, cands, i + 1,
                            IF current_group # <<>>
                            THEN Append(groups, current_group) ELSE groups,
                            <<cands[i]>>)

\* the groups in the order in which the walk closes them
NameGroups(email_word, words) ==
    GroupWalk(words, SortByDistance(NameCandidates(email_word, words)),
              1, <<>>, <<>>)

RECURSIVE SumDistance2(_)
SumDistance2(group) ==
    IF group = <<>> THEN 0 ELSE Head(group).distance2 + SumDistance2(Tail(group))

\* a closed group as (combined_text, avg_distance); the average is kept as
\* the sum of the doubled distances and the number of members
GroupSpan(words, group) ==
    [text |-> Join([j \in 1..Len(group) |-> words[group[j].word].text], " "),
     sum2 |-> SumDistance2(group),
     n |-> Len(group),
     members |-> [j \in 1..Len(group) |-> group[j].word]]

\* every group is kept but the last one is kept without asking the validator
KeepValid_LastUnchecked(spans) ==
    IF spans = <<>> THEN <<>>
    ELSE SelectSeq(SubSeq(spans, 1, Len(spans) - 1),
                   LAMBDA g : is_valid_name(g.text))
         \o <<spans[Len(spans)]>>

\* if is_valid_name(combined_text): name_candidates.append(...)
KeepValid(spans) == SelectSeq(spans, LAMBDA g : is_valid_name(g.text))

\* a.avg_distance < b.avg_distance
AvgBefore(a, b) == a.sum2 * b.n < b.sum2 * a.n

\* the largest average first
SortByAverage_Descending(spans) ==
    StableSort(spans, [i \in 1..Len(spans) |-> [j \in 1..Len(spans) |->
        AvgBefore(spans[j], spans[i])]])

\* name_candidates.sort(key=lambda x: x[1])
SortByAverage(spans) ==
    StableSort(spans, [i \in 1..Len(spans) |-> [j \in 1..Len(spans) |->
        AvgBefore(spans[i], spans[j])]])

\* name_candidates after the final sort
name_candidates(email_word, words) ==
    LET groups == NameGroups(email_word, words)
    IN  SortByAverage(
            KeepValid([j \in 1..Len(groups) |-> GroupSpan(words, groups[j])]))

find_name_above_email(email_word, words) ==
    LET sorted == name_candidates(email_word, words)
    IN  IF sorted # <<>> THEN Some(sorted[1].text) ELSE None

\* the phone search region on every page
PhoneCandidateFilter_AnyPage(word, email_word) ==
    /\ 2 * email_word.y1 <= center_y2(word)
    /\ center_y2(word) <= 2 * (email_word.y1 + PhoneSearchDistance)
    /\ center_x2(email_word) - 2 * XTolerance <= center_x2(word)
    /\ center_x2(word) <= center_x2(email_word) + 2 * XTolerance
    /\ PHONE_PATTERN_findall(word.text) # <<>>

\* the band taken above the bottom of the email instead of below it
PhoneCandidateFilter_Above(word, email_word) ==
    /\ word.page_num = email_word.page_num
    /\ 2 * (email_word.y1 - PhoneSearchDistance) <= center_y2(word)
    /\ center_y2(word) <= 2 * email_word.y1
    /\ center_x2(email_word) - 2 * XTolerance <= center_x2(word)
    /\ center_x2(word) <= center_x2(email_word) + 2 * XTolerance
    /\ PHONE_PATTERN_findall(word.text) # <<>>

\* the tests a word passes to become a phone candidate
PhoneCandidateFilter(word, email_word) ==
    /\ word.page_num = email_word.page_num
    /\ 2 * email_word.y1 <= center_y2(word)
    /\ center_y2(word) <= 2 * (email_word.y1 + PhoneSearchDistance)
    /\ center_x2(email_word) - 2 * XTolerance <= center_x2(word)
    /\ center_x2(word) <= center_x2(email_word) + 2 * XTolerance
    /\ PHONE_PATTERN_findall(word.text) # <<>>

\* phone_candidates after the sort: (matches[0], distance), with the word
phone_candidates(email_word, words) ==
    LET idx == SelectSeq([i \in 1..Len(words) |-> i],
                   LAMBDA i : PhoneCandidateFilter(words[i], email_word))
    IN  SortByDistance(
            [j \in 1..Len(idx) |->
                [phone |-> PHONE_PATTERN_findall(words[idx[j]].text)[1],
                 distance2 |-> Abs(center_y2(words[idx[j]]) - 2 * email_word.y1),
                 word |-> idx[j]]])

\* the farthest candidate is returned
find_phone_below_email_Farthest(email_word, words) ==
    LET sorted == phone_candidates(email_word, words)
    IN  IF sorted # <<>> THEN Some(normalize_phone(sorted[Len(sorted)].phone))
        ELSE None

find_phone_below_email(email_word, words) ==
    LET sorted == phone_candidates(email_word, words)
    IN  IF sorted # <<>> THEN Some(normalize_phone(sorted[1].phone)) ELSE None

-----------------------------------------------------------------------------
(* Name derivation (pairing.py).                                           *)

GENERIC_PREFIXES == {"info", "contact", "admin", "support", "help", "sales",
    "hello", "team", "office", "mail", "noreply", "no-reply"}

RECURSIVE SplitOn(_, _)
\* re.split over a one-character class, and str.split(c) with seps = {c}:
\* the pieces between separators, empty pieces kept
SplitOn(s, seps) ==
    IF \A i \in 1..Len(s) : Ch(s, i) \notin seps THEN <<s>>
    ELSE LET i == CHOOSE i \in 1..Len(s) :
                      Ch(s, i) \in seps /\ \A j \in 1..(i - 1) : Ch(s, j) \notin seps
         IN  <<SubSeq(s, 1, i - 1)>> \o SplitOn(SubSeq(s, i + 1, Len(s)), seps)

\* str.isdigit()
IsDigitStr(s) == s # "" /\ \A i \in 1..Len(s) : Ch(s, i) \in Digits

\* str.isalpha()
IsAlphaStr(s) == s # "" /\ \A i \in 1..Len(s) : Ch(s, i) \in Letters

RECURSIVE NameParts_KeepNumbers(_)
\* the loop without the test that skips pure numbers
NameParts_KeepNumbers(parts) ==
    IF parts = <<>> THEN <<>>
    ELSE LET part == Head(parts)
             rest == NameParts_KeepNumbers(Tail(parts))
         IN  IF part = "" THEN rest
             ELSE IF Len(part) = 1 /\ IsAlphaStr(part)
                  THEN <<UpperStr(part) \o ".">> \o rest
             ELSE <<Capitalize(part)>> \o rest

RECURSIVE NameParts(_)
\* the loop over parts of derive_name_from_email
NameParts(parts) ==
    IF parts = <<>> THEN <<>>
    ELSE LET part == Head(parts)
             rest == NameParts(Tail(parts))
         IN  IF part = "" THEN rest
             ELSE IF IsDigitStr(part) THEN rest
             ELSE IF Len(part) = 1 /\ IsAlphaStr(part)
                  THEN <<UpperStr(part) \o ".">> \o rest
             ELSE <<Capitalize(part)>> \o rest

derive_name_from_email(email) ==
    IF ~Contains(email, "@") THEN "Unknown"
    ELSE LET prefix == LowerStr(SplitOn(email, {"@"})[1])
         IN  IF prefix \in GENERIC_PREFIXES THEN "Unknown"
             ELSE LET parts == SplitOn(prefix, {".", "_", "-"})
                      name_parts == NameParts(parts)
                  IN  IF name_parts = <<>> THEN "Unknown"
                      ELSE Join(name_parts, " ")

-----------------------------------------------------------------------------
(* Email discovery and the extraction loop (pdf_extract.py).               *)

RECURSIVE find_emails_in_words_NoLower(_)
\* the matches are stored as written
find_emails_in_words_NoLower(words) ==
    IF words = <<>> THEN <<>>
    ELSE LET n == Len(words)
             matches == EMAIL_PATTERN_findall(words[n].text)
         IN  find_emails_in_words_NoLower(SubSeq(words, 1, n - 1))
             \o [j \in 1..Len(matches) |-> <<matches[j], n>>]

RECURSIVE find_emails_in_words_Reversed(_)
\* the matches of the last word come first
find_emails_in_words_Reversed(words) ==
    IF words = <<>> THEN <<>>
    ELSE LET n == Len(words)
             matches == EMAIL_PATTERN_findall(words[n].text)
         IN  [j \in 1..Len(matches) |-> <<LowerStr(matches[j]), n>>]
             \o find_emails_in_words_Reversed(SubSeq(words, 1, n - 1))

RECURSIVE find_emails_in_words(_)
\* (email.lower(), word) for every match of every word, in order; the word
\* is given by its index in the list
find_emails_in_words(words) ==
    IF words = <<>> THEN <<>>
    ELSE LET n == Len(words)
             matches == EMAIL_PATTERN_findall(words[n].text)
         IN  find_emails_in_words(SubSeq(words, 1, n - 1))
             \o [j \in 1..Len(matches) |-> <<LowerStr(matches[j]), n>>]

-----------------------------------------------------------------------------
(* Domain, confidence and the pairing loop (pairing.py).                   *)

PERSONAL_DOMAINS == {"gmail.com", "yahoo.com", "hotmail.com", "outlook.com",
    "aol.com", "icloud.com", "me.com", "mac.com", "protonmail.com", "mail.com",
    "yandex.com", "gmx.com", "zoho.com", "live.com", "msn.com"}

\* Optional[str]: email.split('@')[1].lower(), None without an "@"
extract_domain(email) ==
    IF Contains(email, "@") THEN Some(LowerStr(SplitOn(email, {"@"})[2]))
    ELSE None

\* an empty domain is taken for a business domain
classify_domain_EmptyIsBusiness(domain) ==
    IF domain = None THEN "personal"
    ELSE IF Val(domain) \in PERSONAL_DOMAINS THEN "personal"
    ELSE "business"

classify_domain(domain) ==
    IF ~Truthy(domain) THEN "personal"
    ELSE IF Val(domain) \in PERSONAL_DOMAINS THEN "personal"
    ELSE "business"

\* medium only for a name with an email, never for an email with a phone
calculate_confidence_NameOnly(contact) ==
    LET has_name == Truthy(contact.name) /\ contact.name # Some("Unknown")
        has_email == contact.email # ""
        has_phone == Truthy(contact.phone)
    IN  IF has_name /\ has_email /\ has_phone THEN "high"
        ELSE IF has_name /\ has_email THEN "medium"
        ELSE "low"

calculate_confidence(contact) ==
    LET has_name == Truthy(contact.name) /\ contact.name # Some("Unknown")
        has_email == contact.email # ""
        has_phone == Truthy(contact.phone)
    IN  IF has_name /\ has_email /\ has_phone THEN "high"
        ELSE IF (has_name /\ has_email) \/ (has_email /\ has_phone) THEN "medium"
        ELSE "low"

\* the Contact as constructed, before its confidence is calculated
NewContact(name, pdf_contact, domain, domain_type) ==
    [name |-> IF name # "Unknown" THEN Some(name) ELSE None,
     email |-> pdf_contact.email,
     phone |-> pdf_contact.phone,
     profileUrl |-> None,
     source |-> "pdf",
     confidence |-> "medium",
     domain |-> domain,
     domainType |-> domain_type]

\* the loop body with the derived or found name stored as it is
MakeContact_KeepPlaceholder(pdf_contact) ==
    LET name == IF ~Truthy(pdf_contact.name)
                THEN derive_name_from_email(pdf_contact.email)
                ELSE Val(pdf_contact.name)
        domain == extract_domain(pdf_contact.email)
        contact == [NewContact(name, pdf_contact, domain, classify_domain(domain))
                        EXCEPT !.name = Some(name)]
    IN  [contact EXCEPT !.confidence = calculate_confidence(contact)]

\* one pass of the loop body of process_pdf_contacts
MakeContact(pdf_contact) ==
    LET name == IF ~Truthy(pdf_contact.name)
                THEN derive_name_from_email(pdf_contact.email)
                ELSE Val(pdf_contact.name)
        domain == extract_domain(pdf_contact.email)
        domain_type == classify_domain(domain)
        contact == NewContact(name, pdf_contact, domain, domain_type)
    IN  [contact EXCEPT !.confidence = calculate_confidence(contact)]

\* PdfContact; email_coords holds the doubled center coordinates
PdfContact(email, name, phone, cx2, cy2, page_num) ==
    [email |-> email, name |-> name, phone |-> phone,
     email_coords |-> [x2 |-> cx2, y2 |-> cy2, page |-> page_num],
     page_num |-> page_num]

\* the opening in which a file without tokens is refused like a missing file
ExtractOpen_EmptyIsError ==
    /\ pc = "extract"
    /\ IF ~pdf.exists \/ pdf.words = <<>>
       THEN /\ pc' = "FileNotFoundError"
            /\ UNCHANGED <<all_words, emails, k, seen_emails, contacts>>
       ELSE /\ all_words' = pdf.words
            /\ emails' = find_emails_in_words(pdf.words)
            /\ k' = 0
            /\ seen_emails' = {}
            /\ contacts' = <<>>
            /\ pc' = IF emails' = <<>> THEN "process" ELSE "loop"
    /\ UNCHANGED <<pdf, result, call, ret, first_run, retry_vars,
                   cli_vars, scroll_vars>>

\* the opening with seen_emails kept from one call to the next, as a
\* module-level set would be
ExtractOpen_KeepSeen ==
    /\ pc = "extract"
    /\ IF ~pdf.exists
       THEN /\ pc' = "FileNotFoundError"
            /\ UNCHANGED <<all_words, emails, k, seen_emails, contacts>>
       ELSE /\ all_words' = pdf.words
            /\ emails' = IF pdf.words = <<>> THEN <<>>
                         ELSE find_emails_in_words(pdf.words)
            /\ k' = 0
            /\ UNCHANGED seen_emails
            /\ contacts' = <<>>
            /\ pc' = IF emails' = <<>> THEN "process" ELSE "loop"
    /\ UNCHANGED <<pdf, result, call, ret, first_run, retry_vars,
                   cli_vars, scroll_vars>>

\* extract_contacts_from_pdf up to its loop: the path test, the tokens, the
\* emails, the fresh seen_emails and contacts, and the two early returns of
\* an empty list
ExtractOpen ==
    /\ pc = "extract"
    /\ IF ~pdf.exists
       THEN /\ pc' = "FileNotFoundError"
            /\ UNCHANGED <<all_words, emails, k, seen_emails, contacts>>
       ELSE /\ all_words' = pdf.words
            /\ emails' = IF pdf.words = <<>> THEN <<>>
                         ELSE find_emails_in_words(pdf.words)
            /\ k' = 0
            /\ seen_emails' = {}
            /\ contacts' = <<>>
            /\ pc' = IF emails' = <<>> THEN "process" ELSE "loop"
    /\ UNCHANGED <<pdf, result, call, ret, first_run, retry_vars,
                   cli_vars, scroll_vars>>

\* one pass of the loop in which a repeated address replaces its contact
ExtractEmail_LastWins ==
    /\ pc = "loop"
    /\ k < Len(emails)
    /\ LET email_text == emails[k + 1][1]
           email_word == all_words[emails[k + 1][2]]
           contact == PdfContact(email_text,
                                 find_name_above_email(email_word, all_words),
                                 find_phone_below_email(email_word, all_words),
                                 center_x2(email_word), center_y2(email_word),
                                 email_word.page_num)
       IN  /\ seen_emails' = seen_emails \cup {email_text}
           /\ contacts' = IF email_text \in seen_emails
                          THEN [i \in 1..Len(contacts) |->
                                   IF contacts[i].email = email_text
                                   THEN contact ELSE contacts[i]]
                          ELSE Append(contacts, contact)
    /\ k' = k + 1
    /\ UNCHANGED <<pc, pdf, all_words, emails, result, call, ret, first_run,
                   retry_vars,
                   cli_vars, scroll_vars>>

\* one pass of the loop that blanks the text of the email token it has used
ExtractEmail_BlanksToken ==
    /\ pc = "loop"
    /\ k < Len(emails)
    /\ LET email_text == emails[k + 1][1]
           email_word == all_words[emails[k + 1][2]]
       IN  IF email_text \in seen_emails
           THEN UNCHANGED <<seen_emails, contacts>>
           ELSE /\ seen_emails' = seen_emails \cup {email_text}
                /\ contacts' = Append(contacts,
                       PdfContact(email_text,
                                  find_name_above_email(email_word, all_words),
                                  find_phone_below_email(email_word, all_words),
                                  center_x2(email_word), center_y2(email_word),
                                  email_word.page_num))
    /\ all_words' = [all_words EXCEPT ![emails[k + 1][2]].text = ""]
    /\ k' = k + 1
    /\ UNCHANGED <<pc, pdf, emails, result, call, ret, first_run, retry_vars,
                   cli_vars, scroll_vars>>

\* one pass of the loop over emails
ExtractEmail ==
    /\ pc = "loop"
    /\ k < Len(emails)
    /\ LET email_text == emails[k + 1][1]
           email_word == all_words[emails[k + 1][2]]
       IN  IF email_text \in seen_emails
           THEN UNCHANGED <<seen_emails, contacts>>
           ELSE /\ seen_emails' = seen_emails \cup {email_text}
                /\ contacts' = Append(contacts,
                       PdfContact(email_text,
                                  find_name_above_email(email_word, all_words),
                                  find_phone_below_email(email_word, all_words),
                                  center_x2(email_word), center_y2(email_word),
                                  email_word.page_num))
    /\ k' = k + 1
    /\ UNCHANGED <<pc, pdf, all_words, emails, result, call, ret, first_run,
                   retry_vars,
                   cli_vars, scroll_vars>>

\* a return from the middle of the loop, with the contacts built so far
ExtractReturn_Early ==
    /\ pc = "loop"
    /\ k <= Len(emails)
    /\ pc' = "process"
    /\ UNCHANGED <<pdf, all_words, emails, k, seen_emails, contacts, result, call,
                   ret, first_run,
                   retry_vars,
                   cli_vars, scroll_vars>>

\* return contacts, which the caller hands to process_pdf_contacts
ExtractReturn ==
    /\ pc = "loop"
    /\ k = Len(emails)
    /\ pc' = "process"
    /\ UNCHANGED <<pdf, all_words, emails, k, seen_emails, contacts, result, call,
                   ret, first_run,
                   retry_vars,
                   cli_vars, scroll_vars>>

\* for pdf_contact in pdf_contacts: ... contacts.append(contact)
ProcessContact ==
    /\ pc = "process"
    /\ Len(result) < Len(contacts)
    /\ result' = Append(result, MakeContact(contacts[Len(result) + 1]))
    /\ UNCHANGED <<pc, pdf, all_words, emails, k, seen_emails, contacts, call, ret, first_run,
                   retry_vars,
                   cli_vars, scroll_vars>>

\* return contacts
ProcessReturn ==
    /\ pc = "process"
    /\ Len(result) = Len(contacts)
    /\ pc' = "processed"
    /\ UNCHANGED <<pdf, all_words, emails, k, seen_emails, contacts, result, call,
                   ret, first_run,
                   retry_vars,
                   cli_vars, scroll_vars>>

-----------------------------------------------------------------------------
(* The two searches around one email token, on token lists drawn from      *)
(* bounded sets.  The email token spans x 100..220 and y 300..312, so the  *)
(* name window holds the centers with x in 60..260 and y in 240..300, the  *)
(* phone window those with x in 60..260 and y in 312..352.                 *)

RECURSIVE ListsUpTo(_, _)
\* every sequence over S of length at most n
ListsUpTo(S, n) ==
    IF n = 0 THEN {<<>>}
    ELSE LET shorter == ListsUpTo(S, n - 1)
         IN  shorter \cup {Append(l, x) : l \in shorter, x \in S}

MaxSearchWords == 3

AnchorWord == PdfWord("jane.doe@example.com", 100, 300, 220, 312, 0)

\* a token of height 10 on page 0
Tok(text, x0, x1, y0) == PdfWord(text, x0, y0, x1, y0 + 10, 0)

\* tokens on the line 15 above the email and on the line 5 lower, with one
\* token at the top of the window
LineWords ==
    {Tok(t, 100, 140, 280) : t \in {"Jane", "View", "jane"}}
    \cup {Tok(t, 150, 200, 280) : t \in {"Doe", "Profile"}}
    \cup {Tok(t, 150, 200, 285) : t \in {"Doe", "Dr."}}
    \cup {Tok("Mary", 100, 140, 235), AnchorWord}

\* tokens at the edges of the name window
EdgeWords ==
    \* the two vertical edges of the window, inside and outside
    {Tok("Mary", 100, 140, y) : y \in {235, 234, 295, 296}}
    \* the two horizontal edges, inside and outside
    \cup {Tok("Ann", 0, x1, 280) : x1 \in {120, 118}}
    \cup {Tok("Lee", x0, 320, 280) : x0 \in {200, 202}}
    \* 200 above the email, and in place but on another page
    \cup {Tok("Jane", 100, 140, 100), PdfWord("Jane", 100, 280, 140, 290, 1)}
    \cup {AnchorWord}

\* tokens 149 and 150 to the right of the right edge of Tok(_, 50, 70, 280)
GapWords ==
    {Tok("Jo", 50, 70, 280), Tok("Ray", 219, 301, 280), Tok("Ray", 220, 300, 280),
     Tok("Jane", 100, 140, 280), Tok("Doe", 150, 200, 285), AnchorWord}

NameScenes == {LineWords, EdgeWords, GapWords}

NameWords == UNION NameScenes

\* phone tokens in the ways a number is written
FormatWords ==
    {Tok(t, 100, 180, 315) : t \in {"212-555-0100", "12125550100", "555-0100",
                                    "Call 646.555.0123 or 212-555-0100"}}
    \cup {Tok(t, 120, 200, 315) : t \in {"(917) 555 0199", "Fax"}}
    \cup {AnchorWord}

\* phone tokens at the edges of the phone window
PlaceWords ==
    {Tok("718.555.0142", 100, 180, y) : y \in {330, 307, 306, 347, 348}}
    \cup {Tok("347-555-0111", 0, x1, 315) : x1 \in {120, 118}}
    \cup {PdfWord("646-555-0177", 100, 315, 180, 325, 1)}
    \cup {Tok("Call 646.555.0123 or 212-555-0100", 100, 180, 315), AnchorWord}

PhoneScenes == {FormatWords, PlaceWords}

PhoneWords == UNION PhoneScenes

\* the token lists searched: every list of fewer than MaxSearchWords tokens,
\* and every list of MaxSearchWords tokens of one scene
SearchLists(words, scenes) ==
    ListsUpTo(words, MaxSearchWords - 1)
        \cup UNION {ListsUpTo(scene, MaxSearchWords) : scene \in scenes}

InitSearch ==
    /\ pc = "call"
    /\ pdf = NoPdf
    /\ call \in {[fn |-> f, email_word |-> AnchorWord] :
                    f \in {"find_name_above_email", "find_phone_below_email"}}
    /\ all_words \in IF call.fn = "find_name_above_email"
                     THEN SearchLists(NameWords, NameScenes)
                     ELSE SearchLists(PhoneWords, PhoneScenes)
    /\ emails = <<>>
    /\ k = 0
    /\ seen_emails = {}
    /\ contacts = <<>>
    /\ result = <<>>
    /\ ret = None
    /\ first_run = None
    /\ RetryIdle
    /\ CliIdle
    /\ ScrollIdle

Call_find_name_above_email ==
    /\ pc = "call"
    /\ call.fn = "find_name_above_email"
    /\ ret' = find_name_above_email(call.email_word, all_words)
    /\ pc' = "returned"
    /\ UNCHANGED <<pdf, all_words, emails, k, seen_emails, contacts, result, call, first_run,
                   retry_vars,
                   cli_vars, scroll_vars>>

Call_find_phone_below_email ==
    /\ pc = "call"
    /\ call.fn = "find_phone_below_email"
    /\ ret' = find_phone_below_email(call.email_word, all_words)
    /\ pc' = "returned"
    /\ UNCHANGED <<pdf, all_words, emails, k, seen_emails, contacts, result, call, first_run,
                   retry_vars,
                   cli_vars, scroll_vars>>

NextSearch ==
    \/ Call_find_name_above_email
    \/ Call_find_phone_below_email

SpecSearch == InitSearch /\ [][NextSearch]_vars

-----------------------------------------------------------------------------
(* Direct calls of the text functions, on texts drawn from bounded sets.   *)

MaxTextLen == 3

RECURSIVE StringsOver(_, _)
\* every string over alphabet of length at most n
StringsOver(alphabet, n) ==
    IF n = 0 THEN {""}
    ELSE LET shorter == StringsOver(alphabet, n - 1)
         IN  shorter \cup {s \o c : s \in shorter, c \in alphabet}

RECURSIVE Rep(_, _)
Rep(c, n) == IF n = 0 THEN "" ELSE c \o Rep(c, n - 1)

NameAlphabet == {"A", "b", "n", "y", "-", " ", "7", "\n"}

\* texts around the two length limits, and around the ends of the pattern
LongTexts ==
    {"A" \o Rep("a", n) \o t : n \in 46..50, t \in {"", "b", "\n", ".", "b\n"}}

FragmentTexts == {"Viewmont Smith", "Jane Sagent", "Mary Profilet",
    "Anna Findlay", "Loginov", "Jane Doe", "Jane", "Mary-Ann O'Neil",
    "J. R. Smith", "Unknown", "Jane Doe\n", "jane doe", "Jane Doe.", "Jane2 Doe",
    "New York City", "Al", "Ny"}

BlacklistTexts ==
    UNION {{b, Capitalize(b), UpperStr(b)} : b \in BLACKLIST}

NameTexts ==
    StringsOver(NameAlphabet, MaxTextLen) \cup LongTexts \cup FragmentTexts
        \cup BlacklistTexts

MaxPhoneDigits == 11

\* a digit string as written: bare, dashed 3-3-rest, or (3) 3-rest
PhoneStyles(d) ==
    {d} \cup
    (IF Len(d) > 6
     THEN {SubSeq(d, 1, 3) \o "-" \o SubSeq(d, 4, 6) \o "-" \o SubSeq(d, 7, Len(d)),
           "(" \o SubSeq(d, 1, 3) \o ") " \o SubSeq(d, 4, 6) \o "." \o SubSeq(d, 7, Len(d)),
           SubSeq(d, 1, 1) \o " " \o SubSeq(d, 2, Len(d)) \o " x"}
     ELSE {})

RawPhones ==
    UNION {PhoneStyles(d) : d \in StringsOver({"1", "2"}, MaxPhoneDigits)}

LocalAlphabet == {"a", "J", "4", ".", "_", "-"}

EmailTexts ==
    {l \o "@x.com" : l \in StringsOver(LocalAlphabet, MaxTextLen)}
    \cup {p \o "@acme.com" : p \in GENERIC_PREFIXES}
    \cup {UpperStr(p) \o "@acme.com" : p \in GENERIC_PREFIXES}
    \cup {"", "jane.doe", "jane.doe@example.com", "Jane.Doe@Example.COM",
          "j.r.smith@gmail.com", "john_smith-42@x.org", "no.reply@x.com",
          "info.desk@x.com", "unknown@x.com", "a@b@c.com", "@x.com",
          "2024.07@x.com", "mary+news@x.com", "%@x.com", "x-9-y@x.com"}

PatternTexts ==
    StringsOver({"a", "1", "@", "."}, MaxTextLen)
    \cup {"jane.doe@example.com", "Jane.Doe@Example.COM", "a@b.com-x.y,Q@r.st9",
          "a@b.com9x@y.org", "mailto:j_d+x%y@mail.example.co.uk.", "a@b.c",
          "a@.com", "@b.com", "a@b..com", "a@b.com.", "a@b.c0m", "a@-.xy",
          "212-555-0100", "12125550100", "(212) 555-0100", "(212)555.0100",
          "212 555 0100", "212--555-0100", "(212-555-0100", "212)555-0100",
          "555-0100", "Call 646.555.0123 or 212-555-0100", "2125550100x22",
          "+1 212 555 0100", "1-212-555-0100", "99212-555-01009",
          "((212))555-0100", "212\t555\n0100", "21-2555-0100"}

\* emails with an empty domain, an upper-case domain, several "@" and none
DomainEmails == {"jane@", "A@GMAIL.COM", "bob@Yahoo.com", "a@b@c.com",
    "x@gmail.com@evil.org", "noatsign"}

TextCalls ==
    {[fn |-> "is_valid_name", text |-> t] : t \in NameTexts}
    \cup {[fn |-> "normalize_phone", text |-> t] : t \in RawPhones}
    \cup {[fn |-> "derive_name_from_email", text |-> t] : t \in EmailTexts}
    \cup {[fn |-> "EMAIL_PATTERN.findall", text |-> t] : t \in PatternTexts}
    \cup {[fn |-> "PHONE_PATTERN.findall", text |-> t] : t \in PatternTexts}
    \cup {[fn |-> "extract_domain", text |-> t] : t \in EmailTexts \cup DomainEmails}

InitText ==
    /\ pc = "call"
    /\ pdf = NoPdf
    /\ all_words = <<>>
    /\ emails = <<>>
    /\ k = 0
    /\ seen_emails = {}
    /\ contacts = <<>>
    /\ result = <<>>
    /\ call \in TextCalls
    /\ ret = None
    /\ first_run = None
    /\ RetryIdle
    /\ CliIdle
    /\ ScrollIdle

Returned(fn) == pc = "returned" /\ call.fn = fn

Call_is_valid_name ==
    /\ pc = "call"
    /\ call.fn = "is_valid_name"
    /\ ret' = is_valid_name(call.text)
    /\ pc' = "returned"
    /\ UNCHANGED <<pdf, all_words, emails, k, seen_emails, contacts, result, call, first_run,
                   retry_vars,
                   cli_vars, scroll_vars>>

Call_normalize_phone ==
    /\ pc = "call"
    /\ call.fn = "normalize_phone"
    /\ ret' = normalize_phone(call.text)
    /\ pc' = "returned"
    /\ UNCHANGED <<pdf, all_words, emails, k, seen_emails, contacts, result, call, first_run,
                   retry_vars,
                   cli_vars, scroll_vars>>

Call_derive_name_from_email ==
    /\ pc = "call"
    /\ call.fn = "derive_name_from_email"
    /\ ret' = derive_name_from_email(call.text)
    /\ pc' = "returned"
    /\ UNCHANGED <<pdf, all_words, emails, k, seen_emails, contacts, result, call, first_run,
                   retry_vars,
                   cli_vars, scroll_vars>>

Call_EMAIL_PATTERN_findall ==
    /\ pc = "call"
    /\ call.fn = "EMAIL_PATTERN.findall"
    /\ ret' = EMAIL_PATTERN_findall(call.text)
    /\ pc' = "returned"
    /\ UNCHANGED <<pdf, all_words, emails, k, seen_emails, contacts, result, call, first_run,
                   retry_vars,
                   cli_vars, scroll_vars>>

Call_PHONE_PATTERN_findall ==
    /\ pc = "call"
    /\ call.fn = "PHONE_PATTERN.findall"
    /\ ret' = PHONE_PATTERN_findall(call.text)
    /\ pc' = "returned"
    /\ UNCHANGED <<pdf, all_words, emails, k, seen_emails, contacts, result, call, first_run,
                   retry_vars,
                   cli_vars, scroll_vars>>

Call_extract_domain ==
    /\ pc = "call"
    /\ call.fn = "extract_domain"
    /\ ret' = extract_domain(call.text)
    /\ pc' = "returned"
    /\ UNCHANGED <<pdf, all_words, emails, k, seen_emails, contacts, result, call, first_run,
                   retry_vars,
                   cli_vars, scroll_vars>>

NextText ==
    \/ Call_is_valid_name
    \/ Call_normalize_phone
    \/ Call_derive_name_from_email
    \/ Call_EMAIL_PATTERN_findall
    \/ Call_PHONE_PATTERN_findall
    \/ Call_extract_domain

SpecText == InitText /\ [][NextText]_vars

-----------------------------------------------------------------------------
(* process_pdf_contacts on raw contact lists drawn from bounded sets.      *)

MaxRawContacts == 2

RawNames == {None, Some(""), Some("Unknown"), Some("Jane Doe")}

RawEmails == {"info@acme.com", "jane.doe@example.com", "unknown@gmail.com",
    "77@x.com", ""}

RawPhoneValues == {None, Some(""), Some("+1-212-555-0100")}

RawContacts ==
    {PdfContact(e, n, p, 0, 0, 0) :
        e \in RawEmails, n \in RawNames, p \in RawPhoneValues}
    \cup {PdfContact(e, Some("Jane Doe"), None, 0, 0, 0) : e \in DomainEmails}

\* raw contacts with and without a name and a phone, with a business, a
\* personal and an empty domain
CoreRawContacts ==
    {PdfContact(e, n, p, 0, 0, 0) :
        e \in {"info@acme.com", "jane.doe@example.com"},
        n \in {None, Some("Unknown"), Some("Jane Doe")},
        p \in {None, Some("+1-212-555-0100")}}
    \cup {PdfContact(e, Some("Jane Doe"), None, 0, 0, 0) : e \in {"jane@", "A@GMAIL.COM"}}

\* the lists processed: every list of fewer than MaxRawContacts raw contacts,
\* and every list of MaxRawContacts of the core contacts
RawContactLists ==
    ListsUpTo(RawContacts, MaxRawContacts - 1)
        \cup ListsUpTo(CoreRawContacts, MaxRawContacts)

InitPairing ==
    /\ pc = "process"
    /\ pdf = NoPdf
    /\ all_words = <<>>
    /\ emails = <<>>
    /\ k = 0
    /\ seen_emails = {}
    /\ contacts \in RawContactLists
    /\ result = <<>>
    /\ call = [fn |-> "process_pdf_contacts"]
    /\ ret = None
    /\ first_run = None
    /\ RetryIdle
    /\ CliIdle
    /\ ScrollIdle

NextPairing ==
    \/ ProcessContact
    \/ ProcessReturn

SpecPairing == InitPairing /\ [][NextPairing]_vars

-----------------------------------------------------------------------------
(* The pipeline: extract_contacts_from_pdf on a file, then                 *)
(* process_pdf_contacts on its result.                                     *)

MaxWords == 3

DocumentWords ==
    {AnchorWord,
     Tok("Jane.Doe@EXAMPLE.com", 100, 220, 360),
     Tok("info@acme.com", 100, 220, 330),
     Tok("a.b@x.org;A.B@X.ORG", 100, 220, 400),
     Tok("Jane", 100, 140, 280),
     Tok("Doe", 150, 200, 280),
     Tok("Unknown", 100, 140, 285),
     Tok("212-555-0100", 100, 180, 315),
     PdfWord("jane.doe@example.com", 100, 300, 220, 312, 1)}

\* widths of the three tokens of the spatial pairing scenario
ScenarioWidths == {10, 60, 120}

\* a name at y 40..55, an email at y 60..72, a phone at y 75..88, page 0
ScenarioTokens(name_width, email_width, phone_width) ==
    <<PdfWord("Jane Doe", 100, 40, 100 + name_width, 55, 0),
      PdfWord("jane.doe@example.com", 95, 60, 95 + email_width, 72, 0),
      PdfWord("212-555-0100", 98, 75, 98 + phone_width, 88, 0)>>

\* the scenario's tokens in every order
ScenarioDocuments ==
    {[i \in 1..3 |-> ScenarioTokens(wn, we, wp)[order[i]]] :
        wn \in ScenarioWidths, we \in ScenarioWidths, wp \in ScenarioWidths,
        order \in {o \in [1..3 -> 1..3] : {o[1], o[2], o[3]} = 1..3}}

\* every ordering of a finite set of tokens as a list
Orderings(S) ==
    LET n == Cardinality(S)
    IN  {l \in [1..n -> S] : {l[i] : i \in 1..n} = S}

\* two emails stacked 18 or 28 apart with the label "View Profile" between
\* them, as one token or as two tokens on one line
StackedDocuments ==
    UNION {Orderings({AnchorWord, Tok("info@acme.com", 100, 220, lower)} \cup label) :
        lower \in {330, 340},
        label \in UNION {{{Tok("View Profile", 100, 180, y)},
                          {Tok("View", 100, 130, y), Tok("Profile", 135, 180, y)}} :
                         y \in {314, 318}}}

\* documents whose name tokens or email local parts hold the word of a UI
\* element inside a longer text
UiNameDocuments ==
    Orderings({AnchorWord, Tok("Phone", 100, 140, 280), Tok("Smith", 150, 200, 280)})
    \cup Orderings({AnchorWord, Tok("Emails", 100, 140, 280)})
    \cup Orderings({AnchorWord, Tok("Sign", 100, 140, 280), Tok("In", 145, 160, 280),
                    Tok("Here", 165, 200, 280)})
    \cup {<<Tok(t, 100, 220, 300)>> :
             t \in {"phone.support@x.com", "email.team@acme.com", "websites@x.org"}}

Init ==
    /\ pc = "extract"
    /\ pdf \in {NoPdf} \cup {[exists |-> TRUE, words |-> l] :
                                l \in ListsUpTo(DocumentWords, MaxWords)
                                      \cup ScenarioDocuments
                                      \cup StackedDocuments
                                      \cup UiNameDocuments}
    /\ all_words = <<>>
    /\ emails = <<>>
    /\ k = 0
    /\ seen_emails = {}
    /\ contacts = <<>>
    /\ result = <<>>
    /\ call = NoCall
    /\ ret = None
    /\ first_run = None
    /\ RetryIdle
    /\ CliIdle
    /\ ScrollIdle

\* the caller runs the pipeline once more on the same file, keeping the list
\* the first run returned
RunAgain ==
    /\ pc = "processed"
    /\ first_run = None
    /\ pdf.exists
    /\ first_run' = Some(result)
    /\ result' = <<>>
    /\ pc' = "extract"
    /\ UNCHANGED <<pdf, all_words, emails, k, seen_emails, contacts, call, ret, retry_vars,
                   cli_vars, scroll_vars>>

Next ==
    \/ ExtractOpen
    \/ ExtractEmail
    \/ ExtractReturn
    \/ ProcessContact
    \/ ProcessReturn
    \/ RunAgain

Spec == Init /\ [][Next]_vars

\* ---------------------------------------------------------------------
\* rate_limiter.py: RateLimiter.retry_with_backoff(func, max_retries)
\* ---------------------------------------------------------------------

\* the largest max_retries a caller passes
MaxRetries == 4

\* what one call of func can do: return a value or raise an Exception
FuncOutcomes ==
    {[kind |-> "return", value |-> v] : v \in {"page", ""}}
        \cup {[kind |-> "raise", exception |-> x] : x \in {"TimeoutError", "ValueError"}}

Backoff_AfterEveryFailure(sl, a, max_retries) == Append(sl, 2 ^ a)

\* time.sleep(backoff_time) after a failed attempt that is not the last
Backoff(sl, a, max_retries) ==
    IF a < max_retries - 1 THEN Append(sl, 2 ^ a) ELSE sl

InitRetry ==
    /\ pc = "retry"
    /\ pdf = [exists |-> FALSE, words |-> <<>>]
    /\ all_words = <<>>
    /\ emails = <<>>
    /\ k = 0
    /\ seen_emails = {}
    /\ contacts = <<>>
    /\ result = <<>>
    /\ \E m \in 0..MaxRetries : call = [fn |-> "retry_with_backoff", max_retries |-> m]
    /\ ret = None
    /\ first_run = None
    /\ RetryIdle
    /\ CliIdle
    /\ ScrollIdle

\* one iteration of "for attempt in range(max_retries)"
RetryAttempt ==
    /\ pc = "retry"
    /\ attempt < call.max_retries
    /\ \E outcome \in FuncOutcomes :
          /\ func_calls' = Append(func_calls, outcome)
          /\ IF outcome.kind = "return"
             THEN /\ pc' = "returned"
                  /\ ret' = Some(outcome.value)
                  /\ UNCHANGED <<attempt, last_exception, sleeps>>
             ELSE /\ last_exception' = Some(outcome.exception)
                  /\ sleeps' = Backoff(sleeps, attempt, call.max_retries)
                  /\ attempt' = attempt + 1
                  /\ UNCHANGED <<pc, ret>>
    /\ UNCHANGED <<pdf, all_words, emails, k, seen_emails, contacts, result, call,
                   first_run,
                   cli_vars, scroll_vars>>

\* "raise last_exception" after the loop; raising None is a TypeError
RetryRaise ==
    /\ pc = "retry"
    /\ attempt >= call.max_retries
    /\ pc' = "raised"
    /\ ret' = IF last_exception = None THEN Some("TypeError") ELSE last_exception
    /\ UNCHANGED <<pdf, all_words, emails, k, seen_emails, contacts, result, call,
                   first_run, retry_vars,
                   cli_vars, scroll_vars>>

NextRetry ==
    \/ RetryAttempt
    \/ RetryRaise

SpecRetry == InitRetry /\ [][NextRetry]_vars

\* the loop is sequential code: while a step is possible, one is taken
LiveSpecRetry == SpecRetry /\ WF_vars(NextRetry)

\* ---------------------------------------------------------------------
\* cli.py: main()
\* ---------------------------------------------------------------------

\* what a call inside the try block can do besides returning
Raisable == {"Exception", "KeyboardInterrupt"}

\* the calls made before the PDF is rendered, in order
BrowserSteps == <<"BrowserManager", "start", "goto", "wait_for_timeout">>

InitCli ==
    /\ pc = "cli_browser"
    /\ pdf = [exists |-> FALSE, words |-> <<>>]
    /\ all_words = <<>>
    /\ emails = <<>>
    /\ k = 0
    /\ seen_emails = {}
    /\ contacts = <<>>
    /\ result = <<>>
    /\ \E keep \in BOOLEAN, output \in {"json", "csv"} :
          call = [fn |-> "main", keep |-> keep, output |-> output]
    /\ ret = None
    /\ first_run = None
    /\ RetryIdle
    /\ CliIdle
    /\ ScrollIdle

\* an exception leaves the try block at the call named step
Raise(step, exc) ==
    /\ error' = Some([at |-> step, exception |-> exc])
    /\ pc' = "cli_except"

\* BrowserManager(...), browser.start(), browser.goto(url), the 5 s wait:
\* browser is assigned as soon as the constructor has returned
CliBrowser ==
    /\ pc = "cli_browser"
    /\ \/ /\ browser' = "open"
          /\ pc' = "cli_render"
          /\ UNCHANGED error
       \/ \E i \in 1..Len(BrowserSteps), exc \in Raisable :
             /\ browser' = IF i = 1 THEN "none" ELSE "open"
             /\ Raise(BrowserSteps[i], exc)
    /\ UNCHANGED <<pdf, all_words, emails, k, seen_emails, contacts, result, call, ret,
                   first_run, retry_vars, scroll_vars,
                   pdf_file, unlink_attempted, exit_code>>

\* pdf_path = render_page_to_pdf(page, output_dir=args.pdf_dir)
CliRender ==
    /\ pc = "cli_render"
    /\ \/ /\ pdf_file' = "present"
          /\ pc' = "cli_extract"
          /\ UNCHANGED error
       \/ \E exc \in Raisable :
             /\ Raise("render_page_to_pdf", exc)
             /\ UNCHANGED pdf_file
    /\ UNCHANGED <<pdf, all_words, emails, k, seen_emails, contacts, result, call, ret,
                   first_run, retry_vars, scroll_vars,
                   browser, unlink_attempted, exit_code>>

\* pdf_contacts = extract_contacts_from_pdf(pdf_path), then the --limit slice
CliExtract ==
    /\ pc = "cli_extract"
    /\ \/ /\ pc' = "cli_process"
          /\ UNCHANGED error
       \/ \E exc \in Raisable : Raise("extract_contacts_from_pdf", exc)
    /\ UNCHANGED <<pdf, all_words, emails, k, seen_emails, contacts, result, call, ret,
                   first_run, retry_vars, scroll_vars,
                   browser, pdf_file, unlink_attempted, exit_code>>

\* contacts = process_pdf_contacts(pdf_contacts, args.url)
CliProcess ==
    /\ pc = "cli_process"
    /\ \/ /\ pc' = "cli_delete"
          /\ UNCHANGED error
       \/ \E exc \in Raisable : Raise("process_pdf_contacts", exc)
    /\ UNCHANGED <<pdf, all_words, emails, k, seen_emails, contacts, result, call, ret,
                   first_run, retry_vars, scroll_vars,
                   browser, pdf_file, unlink_attempted, exit_code>>

\* "if not args.keep and pdf_path:" with the inner try around unlink(), whose
\* handler logs an Exception and goes on
CliDelete ==
    /\ pc = "cli_delete"
    /\ IF ~call.keep /\ pdf_file = "present"
       THEN /\ unlink_attempted' = TRUE
            /\ \/ /\ pdf_file' = "deleted"
                  /\ pc' = "cli_output"
                  /\ UNCHANGED error
               \/ /\ pc' = "cli_output"
                  /\ UNCHANGED <<pdf_file, error>>
               \/ /\ Raise("unlink", "KeyboardInterrupt")
                  /\ UNCHANGED pdf_file
       ELSE /\ pc' = "cli_output"
            /\ UNCHANGED <<pdf_file, unlink_attempted, error>>
    /\ UNCHANGED <<pdf, all_words, emails, k, seen_emails, contacts, result, call, ret,
                   first_run, retry_vars, scroll_vars,
                   browser, exit_code>>

\* write_json or write_csv, the summary, "return 0"
CliOutput ==
    /\ pc = "cli_output"
    /\ \/ /\ exit_code' = Some(0)
          /\ pc' = "cli_finally"
          /\ UNCHANGED error
       \/ \E exc \in Raisable :
             /\ Raise(IF call.output = "json" THEN "write_json" ELSE "write_csv", exc)
             /\ UNCHANGED exit_code
       \/ \E exc \in Raisable :
             /\ Raise("print_summary", exc)
             /\ UNCHANGED exit_code
    /\ UNCHANGED <<pdf, all_words, emails, k, seen_emails, contacts, result, call, ret,
                   first_run, retry_vars, scroll_vars,
                   browser, pdf_file, unlink_attempted>>

\* "except KeyboardInterrupt: return 130" and "except Exception: return 1"
CliExcept ==
    /\ pc = "cli_except"
    /\ exit_code' = IF Val(error).exception = "KeyboardInterrupt" THEN Some(130) ELSE Some(1)
    /\ pc' = "cli_finally"
    /\ UNCHANGED <<pdf, all_words, emails, k, seen_emails, contacts, result, call, ret,
                   first_run, retry_vars, scroll_vars,
                   browser, pdf_file, unlink_attempted, error>>

\* "finally: if browser: browser.close()", then main returns exit_code;
\* close() catches what closing raises
CliFinally ==
    /\ pc = "cli_finally"
    /\ browser' = IF browser = "open" THEN "closed" ELSE browser
    /\ pc' = "cli_returned"
    /\ UNCHANGED <<pdf, all_words, emails, k, seen_emails, contacts, result, call, ret,
                   first_run, retry_vars, scroll_vars,
                   pdf_file, unlink_attempted, error, exit_code>>

NextCli ==
    \/ CliBrowser
    \/ CliRender
    \/ CliExtract
    \/ CliProcess
    \/ CliDelete
    \/ CliOutput
    \/ CliExcept
    \/ CliFinally

SpecCli == InitCli /\ [][NextCli]_vars

\* ---------------------------------------------------------------------
\* scroll_viewer.py: scroll_to_bottom(page, scroll_pause, max_scrolls)
\* ---------------------------------------------------------------------

\* the largest max_scrolls a caller passes
MaxScrolls == 7

\* scrolls without growth after which the loop is left
NoChangeLimit == 5

\* the values document.body.scrollHeight can have
Heights == {100, 200, 300}

NextNoChange_KeepsCounting(new_height, last, count) ==
    IF new_height > last THEN count ELSE count + 1

\* no_change_count after a scroll that measured new_height
NextNoChange(new_height, last, count) ==
    IF new_height > last THEN 0 ELSE count + 1

InitScroll ==
    /\ pc = "scroll_start"
    /\ pdf = [exists |-> FALSE, words |-> <<>>]
    /\ all_words = <<>>
    /\ emails = <<>>
    /\ k = 0
    /\ seen_emails = {}
    /\ contacts = <<>>
    /\ result = <<>>
    /\ \E m \in 0..MaxScrolls : call = [fn |-> "scroll_to_bottom", max_scrolls |-> m]
    /\ ret = None
    /\ first_run = None
    /\ RetryIdle
    /\ CliIdle
    /\ ScrollIdle

\* the initial height and the two counters
ScrollStart ==
    /\ pc = "scroll_start"
    /\ \E h \in Heights :
          /\ last_height' = h
          /\ observed' = <<h>>
    /\ scroll_count' = 0
    /\ no_change_count' = 0
    /\ pc' = "scroll_loop"
    /\ UNCHANGED <<pdf, all_words, emails, k, seen_emails, contacts, result, call, ret,
                   first_run, retry_vars, cli_vars>>

\* one iteration of "while scroll_count < max_scrolls"
ScrollStep ==
    /\ pc = "scroll_loop"
    /\ scroll_count < call.max_scrolls
    /\ \E new_height \in Heights :
          /\ observed' = Append(observed, new_height)
          /\ scroll_count' = scroll_count + 1
          /\ last_height' = IF new_height > last_height THEN new_height ELSE last_height
          /\ no_change_count' = NextNoChange(new_height, last_height, no_change_count)
          /\ pc' = IF new_height <= last_height /\ no_change_count' >= NoChangeLimit
                   THEN "scroll_exit"
                   ELSE "scroll_loop"
    /\ UNCHANGED <<pdf, all_words, emails, k, seen_emails, contacts, result, call, ret,
                   first_run, retry_vars, cli_vars>>

\* after the loop: the dict returned
ScrollReturn ==
    /\ \/ pc = "scroll_exit"
       \/ pc = "scroll_loop" /\ scroll_count >= call.max_scrolls
    /\ ret' = Some([scroll_count |-> scroll_count,
                    final_height |-> last_height,
                    reached_bottom |-> no_change_count >= NoChangeLimit])
    /\ pc' = "scroll_returned"
    /\ UNCHANGED <<pdf, all_words, emails, k, seen_emails, contacts, result, call,
                   first_run, retry_vars, cli_vars, scroll_vars>>

NextScroll ==
    \/ ScrollStart
    \/ ScrollStep
    \/ ScrollReturn

SpecScroll == InitScroll /\ [][NextScroll]_vars

\* the loop is sequential code: while a step is possible, one is taken
LiveSpecScroll == SpecScroll /\ WF_vars(NextScroll)

-----------------------------------------------------------------------------
(* Claims.                                                                 *)

\* C1: the contact list produced by the pipeline holds at most one contact
\* per distinct lower-cased email address; addresses that differ only in
\* letter case yield a single contact, whose email is the lower-cased form.
C1_Addresses ==
    UNION {{LowerStr(m) : m \in {EMAIL_PATTERN_findall(all_words[i].text)[j] :
                                    j \in 1..Len(EMAIL_PATTERN_findall(all_words[i].text))}} :
              i \in 1..Len(all_words)}

C1_OneContactPerAddress ==
    /\ \A i, j \in 1..Len(result) :
        i # j => LowerStr(result[i].email) # LowerStr(result[j].email)
    /\ \A i \in 1..Len(result) : result[i].email = LowerStr(result[i].email)
    /\ pc = "processed" =>
        \A a \in C1_Addresses :
            Cardinality({i \in 1..Len(result) : result[i].email = a}) = 1

C1_Witness ==
    /\ pc = "processed"
    /\ Len(result) = 2
    /\ \E i, j \in 1..Len(all_words) :
        /\ all_words[i].text = "jane.doe@example.com"
        /\ all_words[j].text = "Jane.Doe@EXAMPLE.com"
    /\ \E i \in 1..Len(all_words) : all_words[i].text = "a.b@x.org;A.B@X.ORG"

\* C2: whenever find_name_above_email returns a name, that text satisfies
\* is_valid_name; when no candidate group is approved it returns None.
C2_SomeGroupApproved ==
    LET groups == NameGroups(call.email_word, all_words)
    IN  \E j \in 1..Len(groups) : is_valid_name(GroupSpan(all_words, groups[j]).text)

C2_ReturnedNameIsValid ==
    Returned("find_name_above_email") =>
        /\ ret # None => is_valid_name(Val(ret))
        /\ ~C2_SomeGroupApproved => ret = None

C2_Witness ==
    /\ Returned("find_name_above_email")
    /\ ret = Some("Jane Doe")
    /\ all_words = <<Tok("Jane", 100, 140, 280), Tok("Doe", 150, 200, 280),
                     Tok("Dr.", 150, 200, 285)>>

\* C3: every token whose text is part of the returned name lies on the
\* email token's page, has its vertical center in [email.y0 - 60, email.y0]
\* and its horizontal center in [email.center_x - 100, email.center_x + 100],
\* and starts with an upper-case character; a token 200 units above the
\* email is never part of the name.
C3_InWindow(w, e) ==
    /\ w.page_num = e.page_num
    /\ 2 * e.y0 - 120 <= w.y0 + w.y1 /\ w.y0 + w.y1 <= 2 * e.y0
    /\ e.x0 + e.x1 - 200 <= w.x0 + w.x1 /\ w.x0 + w.x1 <= e.x0 + e.x1 + 200
    /\ Ch(w.text, 1) \in AsciiUpper

C3_NameTokensInWindow ==
    Returned("find_name_above_email") /\ ret # None =>
        LET best == name_candidates(call.email_word, all_words)[1]
        IN  /\ best.text = Val(ret)
            /\ \A j \in 1..Len(best.members) :
                LET w == all_words[best.members[j]]
                IN  /\ C3_InWindow(w, call.email_word)
                    /\ w.y0 # call.email_word.y0 - 200

C3_Witness ==
    /\ Returned("find_name_above_email")
    /\ ret = Some("Mary")
    /\ \E i, j \in 1..Len(all_words) :
        /\ all_words[i] = Tok("Jane", 100, 140, 100)
        /\ all_words[j] = Tok("Mary", 100, 140, 235)

\* C4: among the groups formed by the name search whose joined text passes
\* the validator, find_name_above_email returns one with the smallest mean
\* member distance |center_y - email.y0|; it returns None exactly when no
\* group passes the validator.
C4_Text(group) ==
    Join([j \in 1..Len(group) |-> all_words[group[j].word].text], " ")

RECURSIVE C4_Sum2(_)
C4_Sum2(group) ==
    IF group = <<>> THEN 0
    ELSE Abs(all_words[Head(group).word].y0 + all_words[Head(group).word].y1
             - 2 * call.email_word.y0) + C4_Sum2(Tail(group))

\* mean(g) <= mean(h)
C4_MeanAtMost(g, h) == C4_Sum2(g) * Len(h) <= C4_Sum2(h) * Len(g)

C4_ClosestValidGroup ==
    Returned("find_name_above_email") =>
        LET groups == NameGroups(call.email_word, all_words)
            valid == {j \in 1..Len(groups) : is_valid_name(C4_Text(groups[j]))}
        IN  /\ ret = None <=> valid = {}
            /\ ret # None =>
                \E j \in valid :
                    /\ C4_Text(groups[j]) = Val(ret)
                    /\ \A h \in valid : C4_MeanAtMost(groups[j], groups[h])

C4_Witness ==
    /\ Returned("find_name_above_email")
    /\ ret = Some("Jane")
    /\ all_words = <<Tok("Mary", 100, 140, 235), Tok("Dr.", 150, 200, 285),
                     Tok("Jane", 100, 140, 280)>>

\* C5: find_phone_below_email considers only tokens on the email token's
\* page whose center lies in the vertical band [email.y1, email.y1 + 40] and
\* the horizontal band [email.center_x - 100, email.center_x + 100] and
\* whose text holds a phone-pattern match; it returns the normalized first
\* match of one such token with the smallest |center_y - email.y1|, never a
\* combination of tokens, and None exactly when there is no such token.
C5_InBand(w, e) ==
    /\ w.page_num = e.page_num
    /\ 2 * e.y1 <= w.y0 + w.y1 /\ w.y0 + w.y1 <= 2 * e.y1 + 80
    /\ e.x0 + e.x1 - 200 <= w.x0 + w.x1 /\ w.x0 + w.x1 <= e.x0 + e.x1 + 200
    /\ PHONE_PATTERN_findall(w.text) # <<>>

C5_Distance2(w, e) == Abs(w.y0 + w.y1 - 2 * e.y1)

C5_ClosestPhoneToken ==
    Returned("find_phone_below_email") =>
        LET e == call.email_word
            band == {i \in 1..Len(all_words) : C5_InBand(all_words[i], e)}
        IN  /\ ret = None <=> band = {}
            /\ ret # None =>
                \E i \in band :
                    /\ \A j \in band : C5_Distance2(all_words[i], e)
                                           <= C5_Distance2(all_words[j], e)
                    /\ ret = Some(normalize_phone(
                                 PHONE_PATTERN_findall(all_words[i].text)[1]))

C5_Witness ==
    /\ Returned("find_phone_below_email")
    /\ ret = Some("+1-646-555-0123")
    /\ all_words = <<Tok("718.555.0142", 100, 180, 330),
                     Tok("Call 646.555.0123 or 212-555-0100", 100, 180, 315),
                     Tok("347-555-0111", 0, 118, 315)>>

\* C6: phone normalization strips every non-digit character of the raw match;
\* exactly 10 digits d1..d10 give "+1-d1d2d3-d4d5d6-d7d8d9d10"; exactly 11
\* digits of which the first is 1 give the same form built from the last 10
\* digits; any other digit count, or 11 digits not starting with 1, gives
\* the raw match unchanged.
C6_Canonical(t) ==
    "+1-" \o SubSeq(t, 1, 3) \o "-" \o SubSeq(t, 4, 6) \o "-" \o SubSeq(t, 7, 10)

C6_Expected(raw) ==
    LET d == DigitsOf(raw)
    IN  CASE Len(d) = 10 -> C6_Canonical(d)
          [] Len(d) = 11 /\ Ch(d, 1) = "1" -> C6_Canonical(SubSeq(d, 2, 11))
          [] OTHER -> raw

C6_PhoneNormalization ==
    Returned("normalize_phone") => ret = C6_Expected(call.text)

C6_Witness ==
    /\ Returned("normalize_phone")
    /\ call.text = "1 2122221212 x"
    /\ ret = "+1-212-222-1212"

\* C7: is_valid_name(text) is true exactly when all five rules hold: length
\* between 2 and 50; the lower-cased text is not in the blacklist; the
\* lower-cased text contains none of the UI fragments; the first character
\* is upper-case; the whole text matches the name pattern.  So every
\* blacklist string in any letter case, every text shorter than 2 or longer
\* than 50, and every text containing a UI fragment is rejected.
C7_Fragments == {"find", "agent", "last name", "first name", "register",
    "login", "view", "profile"}

C7_HasFragment(text) == \E f \in C7_Fragments : Contains(LowerStr(text), f)

C7_FiveRules(text) ==
    /\ Len(text) >= 2 /\ Len(text) <= 50
    /\ LowerStr(text) \notin BLACKLIST
    /\ ~C7_HasFragment(text)
    /\ text # "" /\ Ch(text, 1) \in AsciiUpper
    /\ NAME_PATTERN_match(text)

C7_ValidatorIsTheFiveRules ==
    Returned("is_valid_name") =>
        /\ ret <=> C7_FiveRules(call.text)
        /\ LowerStr(call.text) \in BLACKLIST => ~ret
        /\ Len(call.text) < 2 \/ Len(call.text) > 50 => ~ret
        /\ C7_HasFragment(call.text) => ~ret

C7_Witness ==
    /\ Returned("is_valid_name")
    /\ call.text = "Viewmont Smith"
    /\ ~ret

\* C8: no Contact returned by process_pdf_contacts has the literal name
\* "Unknown": when the spatial name is absent and the derivation yields the
\* placeholder, or the spatial name is itself "Unknown", the name is None.
C8_NoPlaceholderName ==
    \A i \in 1..Len(result) :
        /\ result[i].name # Some("Unknown")
        /\ contacts[i].name = Some("Unknown") => result[i].name = None
        /\ /\ contacts[i].name \in {None, Some("")}
           /\ derive_name_from_email(contacts[i].email) = "Unknown"
           => result[i].name = None

C8_Witness ==
    /\ pc = "processed"
    /\ \E i, j \in 1..Len(result) :
        /\ contacts[i].name = Some("Unknown") /\ result[i].name = None
        /\ contacts[j].name = None /\ contacts[j].email = "info@acme.com"
        /\ result[j].name = None

\* C9: derive_name_from_email returns "Unknown" when the email has no "@",
\* when the lower-cased local part is a generic mailbox alias, or when no
\* segment survives; otherwise it splits the lower-cased local part on ".",
\* "_" and "-", drops empty and pure-numeric segments, renders a
\* single-letter segment as the upper-cased letter and a period, capitalizes
\* every other segment, and joins the results with single spaces in order.
C9_FirstAt(s) ==
    IF \E i \in 1..Len(s) : Ch(s, i) = "@"
    THEN CHOOSE i \in 1..Len(s) :
             Ch(s, i) = "@" /\ \A j \in 1..(i - 1) : Ch(s, j) # "@"
    ELSE 0

C9_Keep(seg) == seg # "" /\ \E i \in 1..Len(seg) : Ch(seg, i) \notin Digits

C9_Render(seg) ==
    IF Len(seg) = 1 /\ seg \in Letters THEN UpperChar(seg) \o "."
    ELSE UpperChar(Ch(seg, 1)) \o SubSeq(seg, 2, Len(seg))

C9_Expected(email) ==
    LET at == C9_FirstAt(email)
        local == LowerStr(SubSeq(email, 1, at - 1))
        kept == SelectSeq(SplitOn(local, {".", "_", "-"}), C9_Keep)
    IN  IF at = 0 \/ local \in GENERIC_PREFIXES \/ kept = <<>> THEN "Unknown"
        ELSE Join([i \in 1..Len(kept) |-> C9_Render(kept[i])], " ")

C10_HasName(c) == c.name \notin {None, Some(""), Some("Unknown")}

C10_HasEmail(c) == c.email # ""

C10_HasPhone(c) == c.phone \notin {None, Some("")}

C10_Tier(c) ==
    IF C10_HasName(c) /\ C10_HasEmail(c) /\ C10_HasPhone(c) THEN "high"
    ELSE IF C10_HasEmail(c) /\ (C10_HasName(c) \/ C10_HasPhone(c)) THEN "medium"
    ELSE "low"

C10_Rank(confidence) ==
    CASE confidence = "high" -> 3
      [] confidence = "medium" -> 2
      [] confidence = "low" -> 1
      [] OTHER -> 0

C10_Confidence ==
    /\ \A i \in 1..Len(result) : result[i].confidence = C10_Tier(result[i])
    /\ \A i, j \in 1..Len(result) :
        LET a == result[i]
            b == result[j]
        IN  /\ /\ C10_HasName(a) /\ C10_HasEmail(a) /\ C10_HasPhone(a)
               /\ ~C10_HasName(b) /\ C10_HasEmail(b) /\ C10_HasPhone(b)
               => C10_Rank(a.confidence) >= C10_Rank(b.confidence)
            /\ /\ ~C10_HasName(a) /\ C10_HasEmail(a) /\ C10_HasPhone(a)
               /\ ~C10_HasName(b) /\ C10_HasEmail(b) /\ ~C10_HasPhone(b)
               => C10_Rank(a.confidence) >= C10_Rank(b.confidence)

C10_Witness ==
    /\ pc = "processed"
    /\ \E i, j \in 1..Len(result) :
        /\ result[i].name = None /\ result[i].phone = Some("+1-212-555-0100")
        /\ result[i].email = "info@acme.com" /\ result[i].confidence = "medium"
        /\ result[j].name = None /\ result[j].phone = None
        /\ result[j].email = "info@acme.com" /\ result[j].confidence = "low"

\* C11: every Contact produced has domainType "personal" or "business"; it is
\* "personal" exactly when the domain extracted from its email is absent, is
\* empty, or is one of the fixed personal webmail domains, and "business" for
\* every other domain.
C11_PersonalList == {"gmail.com", "yahoo.com", "hotmail.com", "outlook.com",
    "aol.com", "icloud.com", "me.com", "mac.com", "protonmail.com", "mail.com",
    "yandex.com", "gmx.com", "zoho.com", "live.com", "msn.com"}

C11_IsPersonal(d) == d = None \/ Val(d) = "" \/ Val(d) \in C11_PersonalList

C11_DomainType ==
    \A i \in 1..Len(result) :
        LET d == extract_domain(result[i].email)
        IN  /\ result[i].domain = d
            /\ result[i].domainType \in {"personal", "business"}
            /\ result[i].domainType = "personal" <=> C11_IsPersonal(d)

C11_Witness ==
    /\ pc = "processed"
    /\ \E i, j \in 1..Len(result) :
        /\ result[i].email = "jane@" /\ result[i].domain = Some("")
        /\ result[i].domainType = "personal"
        /\ result[j].email = "info@acme.com" /\ result[j].domainType = "business"

\* C12: for every email string that contains at least one "@", extract_domain
\* returns the whole substring that follows the first "@", lower-cased; it
\* returns None exactly when the string contains no "@".
C12_FirstAt(s) ==
    IF \E i \in 1..Len(s) : Ch(s, i) = "@"
    THEN CHOOSE i \in 1..Len(s) :
             Ch(s, i) = "@" /\ \A j \in 1..(i - 1) : Ch(s, j) # "@"
    ELSE 0

C12_AfterFirstAt(s) == SubSeq(s, C12_FirstAt(s) + 1, Len(s))

C12_DomainIsRestAfterFirstAt ==
    Returned("extract_domain") =>
        ret = IF C12_FirstAt(call.text) = 0 THEN None
              ELSE Some(LowerStr(C12_AfterFirstAt(call.text)))

\* C13: contacts are output in the order in which their email address was
\* first seen in the token list, with no re-sorting: process_pdf_contacts
\* returns exactly one Contact per raw contact, at the same index, carrying
\* the same email and the same phone as that raw contact.
RECURSIVE C13_Matches(_)
\* every match of the email pattern in the token list, lower-cased, token
\* by token and, within a token, from left to right
C13_Matches(words) ==
    IF words = <<>> THEN <<>>
    ELSE LET found == EMAIL_PATTERN_findall(Head(words).text)
         IN  [j \in 1..Len(found) |-> LowerStr(found[j])] \o C13_Matches(Tail(words))

RECURSIVE C13_FirstSeenOrder(_, _)
\* the addresses of a list of matches, each at the place of its first match
C13_FirstSeenOrder(matches, order) ==
    IF matches = <<>> THEN order
    ELSE C13_FirstSeenOrder(Tail(matches),
             IF \E i \in 1..Len(order) : order[i] = Head(matches) THEN order
             ELSE Append(order, Head(matches)))

C13_InOrder(words, raw, processed, at) ==
    /\ Len(processed) <= Len(raw)
    /\ at = "processed" => Len(processed) = Len(raw)
    /\ \A i \in 1..Len(processed) :
        /\ processed[i].email = raw[i].email
        /\ processed[i].phone = raw[i].phone
    /\ LET order == C13_FirstSeenOrder(C13_Matches(words), <<>>)
       IN  /\ Len(raw) <= Len(order)
           /\ \A i \in 1..Len(raw) : raw[i].email = order[i]
           /\ at \in {"process", "processed"} => Len(raw) = Len(order)

\* every step of the pipeline leads to a state in which it holds; before
\* the first step nothing has been read and both lists are empty
C13_OutputInFirstSeenOrder ==
    [][C13_InOrder(all_words', contacts', result', pc')]_vars

C13_Witness ==
    /\ pc = "processed"
    /\ Len(result) = 2
    /\ result[1].email = "jane.doe@example.com"
    /\ result[1].phone = Some("+1-212-555-0100")
    /\ result[2].email = "a.b@x.org"
    /\ C13_Matches(all_words) = <<"jane.doe@example.com", "a.b@x.org", "a.b@x.org">>

\* C14: when the same address, compared without regard to letter case, is
\* matched in several tokens, its contact is anchored on the first such token
\* in input order: the recorded position and page, and the windows of the
\* name search and of the phone search, are those of the first token, and
\* later occurrences never change the contact.
C14_Tokens(a) ==
    {i \in 1..Len(all_words) :
        LET matches == EMAIL_PATTERN_findall(all_words[i].text)
        IN  \E j \in 1..Len(matches) : LowerStr(matches[j]) = a}

C14_FirstToken(a) ==
    LET tokens == C14_Tokens(a)
    IN  all_words[CHOOSE i \in tokens : \A j \in tokens : i <= j]

C14_Anchored(contact) ==
    /\ C14_Tokens(contact.email) # {}
    /\ LET w == C14_FirstToken(contact.email)
       IN  /\ contact.email_coords =
                  [x2 |-> w.x0 + w.x1, y2 |-> w.y0 + w.y1, page |-> w.page_num]
           /\ contact.page_num = w.page_num
           /\ contact.name = find_name_above_email(w, all_words)
           /\ contact.phone = find_phone_below_email(w, all_words)

\* a step leaves the contacts as they are, starts a call with an empty list,
\* or appends one contact anchored on the first token of its address
C14_Step ==
    \/ contacts' = contacts
    \/ pc = "extract" /\ contacts' = <<>>
    \/ /\ pc = "loop"
       /\ Len(contacts') = Len(contacts) + 1
       /\ SubSeq(contacts', 1, Len(contacts)) = contacts
       /\ \A i \in 1..Len(contacts) :
           contacts[i].email # contacts'[Len(contacts')].email
       /\ C14_Anchored(contacts'[Len(contacts')])

C14_AnchoredOnFirstToken == [][C14_Step]_vars

C14_Witness ==
    /\ pc = "processed"
    /\ Len(contacts) = 1
    /\ Len(all_words) = 3
    /\ contacts[1].phone = Some("+1-212-555-0100")
    /\ contacts[1].email_coords = [x2 |-> 320, y2 |-> 612, page |-> 0]
    /\ all_words[2] = AnchorWord
    /\ all_words[3].text = "Jane.Doe@EXAMPLE.com"
    /\ find_phone_below_email(all_words[3], all_words) = None

\* C15: an empty token list, and a non-empty token list in which no token
\* contains a match of the email pattern, both yield an empty contact list
\* and never an error.
C15_NoEmailToken(words) ==
    \A i \in 1..Len(words) : EMAIL_PATTERN_findall(words[i].text) = <<>>

C15_NoEmailsNoContacts ==
    (pdf.exists /\ C15_NoEmailToken(pdf.words)) =>
        /\ pc \in {"extract", "process", "processed"}
        /\ contacts = <<>>
        /\ result = <<>>

C15_Witness ==
    /\ pc = "processed"
    /\ pdf.exists
    /\ Len(pdf.words) = 3
    /\ C15_NoEmailToken(pdf.words)
    /\ all_words = pdf.words
    /\ result = <<>>

\* C16: an extraction call is atomic.  On a path that does not exist it
\* raises FileNotFoundError before any token is read; a call that returns
\* returns the full list, exactly one raw contact for every distinct email
\* of the document, never a part of it.
C16_DistinctEmails(words) ==
    UNION {LET matches == EMAIL_PATTERN_findall(words[i].text)
           IN  {LowerStr(matches[j]) : j \in 1..Len(matches)} :
           i \in 1..Len(words)}

C16_Returned == pc \in {"process", "processed"}

C16_FullListOrNotFound ==
    /\ ~pdf.exists => /\ pc \in {"extract", "FileNotFoundError"}
                       /\ all_words = <<>> /\ emails = <<>>
                       /\ contacts = <<>> /\ result = <<>>
    /\ pc = "FileNotFoundError" => ~pdf.exists
    /\ C16_Returned =>
          /\ pdf.exists
          /\ LET distinct == C16_DistinctEmails(pdf.words)
             IN  /\ {contacts[i].email : i \in 1..Len(contacts)} = distinct
                 /\ Len(contacts) = Cardinality(distinct)

C16_Witness ==
    /\ pc = "process"
    /\ result = <<>>
    /\ Len(contacts) = 3
    /\ Cardinality(C16_DistinctEmails(pdf.words)) = 3

\* C17: given a "Jane Doe" token at y 40..55, the token
\* "jane.doe@example.com" at y 60..72 and the token "212-555-0100" at y 75..88,
\* horizontally aligned within the tolerance and all on page 0, the pipeline
\* returns exactly one Contact, with name "Jane Doe", phone "+1-212-555-0100",
\* domain "example.com", domainType "business" and confidence "high".
C17_Aligned(w, e) == Abs((w.x0 + w.x1) - (e.x0 + e.x1)) <= 200

C17_IsScenario(words) ==
    /\ Len(words) = 3
    /\ \E n, e, p \in 1..3 :
        /\ {n, e, p} = 1..3
        /\ words[n].text = "Jane Doe" /\ words[n].y0 = 40 /\ words[n].y1 = 55
        /\ words[e].text = "jane.doe@example.com"
        /\ words[e].y0 = 60 /\ words[e].y1 = 72
        /\ words[p].text = "212-555-0100" /\ words[p].y0 = 75 /\ words[p].y1 = 88
        /\ \A i \in 1..3 : words[i].page_num = 0
        /\ C17_Aligned(words[n], words[e]) /\ C17_Aligned(words[p], words[e])

C17_SpatialPairingScenario ==
    (pc = "processed" /\ pdf.exists /\ C17_IsScenario(pdf.words)) =>
        /\ Len(result) = 1
        /\ contacts[1].name = Some("Jane Doe")
        /\ result[1].name = Some("Jane Doe")
        /\ result[1].email = "jane.doe@example.com"
        /\ result[1].phone = Some("+1-212-555-0100")
        /\ result[1].domain = Some("example.com")
        /\ result[1].domainType = "business"
        /\ result[1].confidence = "high"

C17_Witness ==
    /\ pc = "processed"
    /\ pdf.exists
    /\ C17_IsScenario(pdf.words)
    /\ pdf.words[1].text = "212-555-0100"
    /\ pdf.words[3].text = "Jane Doe"
    /\ Len(result) = 1
    /\ result[1].confidence = "high"

\* C18: for two emails stacked close together with the UI label
\* "View Profile" lying between them, as one token or as the tokens "View"
\* and "Profile", the label is never returned as the name of either email:
\* every candidate span made of the label's tokens is rejected by the
\* validator in both name searches.
C18_IsLabel(w) == w.text \in {"View Profile", "View", "Profile"}

C18_EmailTokens(words) ==
    {i \in 1..Len(words) : EMAIL_PATTERN_findall(words[i].text) # <<>>}

C18_IsStacked(words) ==
    /\ \E i \in 1..Len(words) : C18_IsLabel(words[i])
    /\ LET email_tokens == C18_EmailTokens(words)
       IN  /\ Cardinality(email_tokens) = 2
           /\ \A i \in 1..Len(words) :
               i \notin email_tokens =>
                   /\ C18_IsLabel(words[i])
                   /\ \E a, b \in email_tokens :
                       /\ words[a].y1 <= words[i].y0
                       /\ words[i].y1 <= words[b].y0
                       /\ words[a].page_num = words[i].page_num
                       /\ words[b].page_num = words[i].page_num

C18_LabelSpans(e, words) ==
    LET groups == NameGroups(words[e], words)
    IN  {GroupSpan(words, groups[j]).text :
            j \in {g \in 1..Len(groups) :
                      \E m \in 1..Len(groups[g]) :
                          C18_IsLabel(words[groups[g][m].word])}}

C18_LabelIsNoName ==
    (pdf.exists /\ C18_IsStacked(pdf.words)) =>
        /\ \A e \in C18_EmailTokens(pdf.words) :
            /\ \A t \in C18_LabelSpans(e, pdf.words) : ~is_valid_name(t)
            /\ find_name_above_email(pdf.words[e], pdf.words) = None
        /\ \A i \in 1..Len(contacts) : contacts[i].name = None
        /\ \A i \in 1..Len(result) :
            result[i].name \notin {Some("View Profile"), Some("Profile View"),
                                   Some("View"), Some("Profile")}

C18_Witness ==
    /\ pc = "processed"
    /\ pdf.exists
    /\ C18_IsStacked(pdf.words)
    /\ Len(pdf.words) = 4
    /\ pdf.words[1].text = "Profile"
    /\ pdf.words[2].text = "View"
    /\ \E e \in C18_EmailTokens(pdf.words) :
        C18_LabelSpans(e, pdf.words) = {"Profile View"}
    /\ Len(result) = 2

\* C19: for every contact the pipeline produces, the lower-cased name, when
\* present, contains none of the UI strings "sign in", "contact us", "email",
\* "phone", "website" as a substring, whether the name was found spatially or
\* derived from the local part of the email.
C19_ui_elements == {"sign in", "contact us", "email", "phone", "website"}

C19_NoUiStringInName ==
    \A i \in 1..Len(result) :
        Truthy(result[i].name) =>
            \A ui \in C19_ui_elements : ~Contains(LowerStr(Val(result[i].name)), ui)

\* C20: running the pipeline twice on an identical token list yields
\* identical Contact lists, with the same contacts, the same field values and
\* the same order: the result depends only on the token list and on no state
\* left by an earlier run.
C20_SecondRunIsIdentical ==
    (pc = "processed" /\ first_run # None) => result = Val(first_run)

C20_Witness ==
    /\ pc = "processed"
    /\ first_run # None
    /\ Len(result) = 2
    /\ result = Val(first_run)
    /\ Len(all_words) = 3
    /\ result[1].name = Some("Jane Doe")
    /\ result[2].name = None

\* C21: after any sequence of name and phone searches, for any emails in any
\* order, the shared token list is unchanged, with the same tokens in the same
\* order with the same text and coordinates, so the name and the phone found
\* for an email do not depend on which other emails were processed before it.
C21_FromTheDocument(contact) ==
    \E i \in 1..Len(pdf.words) :
        /\ contact.email_coords = [x2 |-> pdf.words[i].x0 + pdf.words[i].x1,
                                   y2 |-> pdf.words[i].y0 + pdf.words[i].y1,
                                   page |-> pdf.words[i].page_num]
        /\ contact.name = find_name_above_email(pdf.words[i], pdf.words)
        /\ contact.phone = find_phone_below_email(pdf.words[i], pdf.words)

C21_Step ==
    /\ pc \in {"loop", "process", "processed"} =>
        /\ all_words = pdf.words
        /\ all_words' = all_words
    /\ (pc = "loop" /\ Len(contacts') = Len(contacts) + 1) =>
        C21_FromTheDocument(contacts'[Len(contacts')])

C21_SearchesLeaveTokensUnchanged == [][C21_Step]_vars

C21_Witness ==
    /\ pc = "processed"
    /\ Len(contacts) = 2
    /\ contacts[1].phone # None
    /\ contacts[2].phone = None
    /\ Len(all_words) = 3
    /\ all_words = pdf.words

\* C22: in the name search the candidates are walked in ascending distance,
\* equal distances in input order; a candidate joins the current group iff
\* its top edge is less than 5 from the top edge of the candidate walked just
\* before it and its left edge is less than 150 from that candidate's right
\* edge, and otherwise closes the group and starts a new one.  The text of a
\* group is its tokens joined by single spaces in walk order, and its score
\* is the mean of its members' distances.
RECURSIVE C22_Flatten(_)
C22_Flatten(groups) ==
    IF groups = <<>> THEN <<>> ELSE Head(groups) \o C22_Flatten(Tail(groups))

RECURSIVE C22_SpaceJoined(_, _)
C22_SpaceJoined(words, group) ==
    IF Len(group) = 1 THEN words[group[1].word].text
    ELSE words[group[1].word].text \o " " \o C22_SpaceJoined(words, Tail(group))

RECURSIVE C22_Sum2(_)
C22_Sum2(group) ==
    IF group = <<>> THEN 0 ELSE group[1].distance2 + C22_Sum2(Tail(group))

C22_Joins(words, prev, cur) ==
    /\ Abs(words[cur.word].y0 - words[prev.word].y0) < 5
    /\ Abs(words[cur.word].x0 - words[prev.word].x1) < 150

C22_IsWalk(cands, walk) ==
    /\ Len(walk) = Len(cands)
    /\ {walk[p] : p \in 1..Len(walk)} = {cands[p] : p \in 1..Len(cands)}
    /\ \A p \in 1..(Len(walk) - 1) :
        \/ walk[p].distance2 < walk[p + 1].distance2
        \/ /\ walk[p].distance2 = walk[p + 1].distance2
           /\ walk[p].word < walk[p + 1].word

C22_GroupsFollowTheWalk(e, words, groups) ==
    /\ C22_IsWalk(NameCandidates(e, words), C22_Flatten(groups))
    /\ \A g \in 1..Len(groups) :
        /\ groups[g] # <<>>
        /\ \A m \in 2..Len(groups[g]) :
            C22_Joins(words, groups[g][m - 1], groups[g][m])
        /\ g > 1 => ~C22_Joins(words, groups[g - 1][Len(groups[g - 1])], groups[g][1])
        /\ LET span == GroupSpan(words, groups[g])
           IN  /\ span.text = C22_SpaceJoined(words, groups[g])
               /\ span.sum2 = C22_Sum2(groups[g])
               /\ span.n = Len(groups[g])

C22_Step ==
    (pc = "call" /\ call.fn = "find_name_above_email") =>
        LET groups == NameGroups(call.email_word, all_words)
        IN  /\ C22_GroupsFollowTheWalk(call.email_word, all_words, groups)
            /\ ret' # None =>
                \E g \in 1..Len(groups) :
                    Val(ret') = C22_SpaceJoined(all_words, groups[g])

C22_GroupingWalk == [][C22_Step]_vars

C22_Witness ==
    /\ Returned("find_name_above_email")
    /\ Len(all_words) = 3
    /\ all_words[1].text = "Jo" /\ all_words[2].text = "Ray" /\ all_words[3].text = "Jane"
    /\ LET groups == NameGroups(call.email_word, all_words)
       IN  /\ Len(groups) = 2
           /\ Len(groups[1]) = 2
           /\ Len(groups[2]) = 1
    /\ ret = Some("Jo Ray")

\* C23: when the phone search selects a token whose text is an 11-digit
\* number beginning with 1, such as "12125550100", the phone returned is the
\* canonical form of the 10-digit number without the leading 1,
\* "+1-212-555-0100".
C23_IsElevenDigits(t) ==
    /\ Len(t) = 11
    /\ \A i \in 1..11 : Ch(t, i) \in Digits
    /\ Ch(t, 1) = "1"

C23_CanonicalOfTen(d) ==
    "+1-" \o SubSeq(d, 1, 3) \o "-" \o SubSeq(d, 4, 6) \o "-" \o SubSeq(d, 7, 10)

C23_SelectedText ==
    all_words[phone_candidates(call.email_word, all_words)[1].word].text

C23_ElevenDigitsSameAsTen ==
    (/\ Returned("find_phone_below_email")
     /\ phone_candidates(call.email_word, all_words) # <<>>
     /\ C23_IsElevenDigits(C23_SelectedText)) =>
        ret = Some(C23_CanonicalOfTen(SubSeq(C23_SelectedText, 2, 11)))

\* C24: retry_with_backoff with max_retries >= 1 calls func at most
\* max_retries times and never again after a call that returned; it returns
\* the value of the first call that returned; when every call raised it
\* raises the exception of the last call; and after the failed call number j
\* it has slept 2^(j-1) seconds, except after the last permitted call, where it
\* does not sleep.
C24_Last == func_calls[Len(func_calls)]

C24_Min(a, b) == IF a < b THEN a ELSE b

C24_Safety ==
    (call.fn = "retry_with_backoff" /\ call.max_retries >= 1) =>
        /\ Len(func_calls) <= call.max_retries
        /\ \A i \in 1..(Len(func_calls) - 1) : func_calls[i].kind = "raise"
        /\ (pc = "returned") <=> (func_calls # <<>> /\ C24_Last.kind = "return")
        /\ pc = "returned" => ret = Some(C24_Last.value)
        /\ pc = "raised" =>
              /\ Len(func_calls) = call.max_retries
              /\ C24_Last.kind = "raise"
              /\ ret = Some(C24_Last.exception)
        /\ LET failures == Cardinality({i \in 1..Len(func_calls) :
                                           func_calls[i].kind = "raise"})
           IN  sleeps = [j \in 1..C24_Min(failures, call.max_retries - 1) |-> 2 ^ (j - 1)]

C25_PdfNotLeftBehind ==
    (/\ call.fn = "main"
     /\ pc = "cli_returned"
     /\ ~call.keep
     /\ pdf_file # "none") =>
        /\ unlink_attempted
        /\ (pdf_file = "present" /\ error = None) => exit_code = Some(0)

\* C26: scroll_to_bottom terminates for every sequence of page heights with
\* at most max_scrolls scrolls; a scroll whose height exceeds the largest
\* height observed before it resets the no-change counter to 0; the loop is
\* left early exactly when 5 consecutive scrolls showed no height above the
\* largest observed before them; reached_bottom is true iff the scrolls
\* ended with 5 such scrolls; final_height is the largest height observed.
C26_Max(seq, n) == CHOOSE m \in {seq[i] : i \in 1..n} : \A i \in 1..n : seq[i] <= m

\* scroll i measured observed[i + 1]
C26_NoGrowth(i) == observed[i + 1] <= C26_Max(observed, i)

C26_Trailing ==
    LET n == Len(observed) - 1
        grew == {i \in 1..n : ~C26_NoGrowth(i)}
    IN  IF grew = {} THEN n ELSE n - (CHOOSE i \in grew : \A j \in grew : j <= i)

C26_Safety ==
    (call.fn = "scroll_to_bottom" /\ pc # "scroll_start") =>
        /\ scroll_count = Len(observed) - 1
        /\ scroll_count <= call.max_scrolls
        /\ last_height = C26_Max(observed, Len(observed))
        /\ no_change_count = C26_Trailing
        /\ pc = "scroll_loop" => no_change_count < NoChangeLimit
        /\ pc = "scroll_exit" => no_change_count = NoChangeLimit
        /\ pc = "scroll_returned" =>
              /\ Val(ret).scroll_count = scroll_count
              /\ Val(ret).final_height = C26_Max(observed, Len(observed))
              /\ Val(ret).reached_bottom <=> (C26_Trailing >= NoChangeLimit)
              /\ scroll_count < call.max_scrolls => Val(ret).reached_bottom

C26_ScrollContract == []C26_Safety /\ <>(pc = "scroll_returned")

\* a page that also shrinks: one scroll without growth, growth, then five
\* scrolls that stay at or below the largest height
C26_Witness ==
    /\ pc = "scroll_returned"
    /\ call.max_scrolls = 7
    /\ observed = <<200, 100, 300, 200, 300, 100, 200, 300>>
    /\ Val(ret) = [scroll_count |-> 7, final_height |-> 300, reached_bottom |-> TRUE]

\* C26 as stated, "increase" read as a height above the height observed one
\* scroll earlier: reached_bottom is true iff the last 5 scrolls each
\* measured a height no larger than the scroll before.
C26_NoIncrease(i) == observed[i + 1] <= observed[i]

C26_IncreaseOverPreviousScroll ==
    (call.fn = "scroll_to_bottom" /\ pc = "scroll_returned") =>
        (Val(ret).reached_bottom <=>
            /\ scroll_count >= NoChangeLimit
            /\ \A i \in (scroll_count - NoChangeLimit + 1)..scroll_count : C26_NoIncrease(i))

\* C27: every text is_valid_name accepts has between 3 and 50 characters,
\* begins with an ASCII upper-case letter, ends with an ASCII letter and has
\* in between only letters, apostrophes, hyphens, periods and whitespace; so
\* no 2-character text and no text with a digit or '@' is accepted.
C27_AcceptedShape ==
    (Returned("is_valid_name") /\ ret) =>
        LET text == call.text
            n == Len(text)
        IN  /\ n >= 3 /\ n <= 50
            /\ Ch(text, 1) \in AsciiUpper
            /\ Ch(text, n) \in Letters
            /\ \A i \in 2..(n - 1) : Ch(text, i) \in NameMidChars
            /\ \A i \in 1..n : Ch(text, i) \notin Digits \cup {"@"}

\* C28: every phone find_phone_below_email returns has the canonical form
\* "+1-DDD-DDD-DDDD", ten digits after the country code; every match of the
\* phone pattern in a token holds exactly ten digits, so the normalization
\* never takes its 11-digit branch nor returns the text unchanged.
C28_IsCanonical(phone) ==
    /\ Len(phone) = 15
    /\ SubSeq(phone, 1, 3) = "+1-"
    /\ Ch(phone, 7) = "-"
    /\ Ch(phone, 11) = "-"
    /\ \A i \in {4, 5, 6, 8, 9, 10, 12, 13, 14, 15} : Ch(phone, i) \in Digits

C28_ReturnedPhoneIsCanonical ==
    Returned("find_phone_below_email") =>
        /\ ret # None => C28_IsCanonical(Val(ret))
        /\ \A i \in 1..Len(all_words) :
              LET matches == PHONE_PATTERN_findall(all_words[i].text)
              IN  \A j \in 1..Len(matches) :
                     /\ Len(DigitsOf(matches[j])) = NationalDigits
                     /\ C28_IsCanonical(normalize_phone(matches[j]))

C28_Witness ==
    /\ Returned("find_phone_below_email")
    /\ \E i \in 1..Len(all_words) : all_words[i].text = "12125550100"
    /\ \E i \in 1..Len(all_words) : all_words[i].text = "(917) 555 0199"
    /\ ret = Some("+1-917-555-0199")

\* C29: no cross-contamination between the contacts of one page: two
\* contacts with different emails never have names built from a common
\* name token, nor phones taken from the same phone token.
C29_NameTokens(i) ==
    LET sorted == name_candidates(all_words[emails[i][2]], all_words)
    IN  IF sorted = <<>> THEN {}
        ELSE {sorted[1].members[j] : j \in 1..Len(sorted[1].members)}

C29_PhoneTokens(i) ==
    LET sorted == phone_candidates(all_words[emails[i][2]], all_words)
    IN  IF sorted = <<>> THEN {} ELSE {sorted[1].word}

\* the entry of emails that contact c was built from
C29_EntryOf(c) ==
    CHOOSE i \in 1..k : /\ emails[i][1] = contacts[c].email
                        /\ \A j \in 1..(i - 1) : emails[j][1] # emails[i][1]

C29_NoSharedTokens ==
    \A c, d \in 1..Len(contacts) :
        contacts[c].email # contacts[d].email =>
            /\ C29_NameTokens(C29_EntryOf(c)) \cap C29_NameTokens(C29_EntryOf(d)) = {}
            /\ C29_PhoneTokens(C29_EntryOf(c)) \cap C29_PhoneTokens(C29_EntryOf(d)) = {}

====
